---- MODULE Spec2Model ----
(***************************************************************************)
(* robust-lsp: the edit router (did_open / did_change / did_save), the     *)
(* per-file ingest and the symbol index (Class, Prototype and Locale       *)
(* tables, Parsed-File Map, open-buffer map).                              *)
(*                                                                         *)
(* Texts are sequences of one-character entries.  In a YAML document an    *)
(* entry "H" is the sequence item `- type: entity / id: Human`, "D" is the *)
(* item `- type: entity / id: Dwarf`, and "m" is a top-level mapping pair  *)
(* (a document that starts with it has no top-level block_sequence).  In a *)
(* C# file an entry is a class declaration of that name, in a Fluent file  *)
(* a message with that key.  "\n" ends a line.  A syntax tree keeps the     *)
(* positions of its nodes, not their text: the text of a node is read from *)
(* the source the tree is used with.                                       *)
(*                                                                         *)
(* Every `.await` of a handler is a point where it can be suspended        *)
(* and another handler can run, so each handler is a sequence of steps, one *)
(* per lock acquisition.                                                   *)
(***************************************************************************)
EXTENDS Integers, Sequences, FiniteSets, TLC

\* Bounds of the model.
MaxEvents == 3      \* open / change / save notifications delivered in a run
MaxLen == 2         \* longest text the editor produces

YamlPaths == {"a.yml"}
CsPaths == {"c.cs"}
FtlPaths == {"l.ftl"}
Paths == YamlPaths \cup CsPaths \cup FtlPaths
Slots == {1, 2}

NoTree == [lang |-> "none"]
NoFile == [open |-> FALSE]
Err == [ok |-> FALSE, items |-> <<>>]
Ok(items) == [ok |-> TRUE, items |-> items]

get_ext(path) ==
    IF path \in YamlPaths THEN "yml"
    ELSE IF path \in CsPaths THEN "cs"
    ELSE "ftl"

SeqToSet(s) == {s[i] : i \in 1..Len(s)}

-----------------------------------------------------------------------------
(* Rope: line / char addressing and the fallible range edits.              *)

Newlines(text) == {i \in 1..Len(text) : text[i] = "\n"}

len_lines(text) == Cardinality(Newlines(text)) + 1

\* Char offset of the start of a line; -1 stands for the panic of
\* Rope::line_to_char on a line index past the end.
line_to_char(text, line) ==
    IF line > len_lines(text) THEN -1
    ELSE IF line = 0 THEN 0
    ELSE IF line = len_lines(text) THEN Len(text)
    ELSE CHOOSE i \in Newlines(text) :
            Cardinality({j \in Newlines(text) : j <= i}) = line

\* Rope::try_remove(start..end): an error leaves the rope as it is.
try_remove(text, start, end) ==
    IF start > end \/ end > Len(text) THEN [ok |-> FALSE, rope |-> text]
    ELSE [ok |-> TRUE,
          rope |-> SubSeq(text, 1, start) \o SubSeq(text, end + 1, Len(text))]

\* Rope::try_insert(idx, text): an error leaves the rope as it is.
try_insert(text, idx, new) ==
    IF idx > Len(text) THEN [ok |-> FALSE, rope |-> text]
    ELSE [ok |-> TRUE,
          rope |-> SubSeq(text, 1, idx) \o new \o SubSeq(text, idx + 1, Len(text))]

\* One content change of did_change: the result of the remove is only
\* logged, the insert is attempted in either case.
ApplyChange(text, change) ==
    LET ls == line_to_char(text, change.sl)
        le == line_to_char(text, change.el)
    IN  IF ls < 0 \/ le < 0 THEN [panic |-> TRUE, rope |-> text]
        ELSE LET start_idx == ls + change.sc
                 end_idx == le + change.ec
                 removed == try_remove(text, start_idx, end_idx).rope
             IN  [panic |-> FALSE,
                  rope |-> try_insert(removed, start_idx, change.text).rope]

RECURSIVE ApplyChanges(_, _)
ApplyChanges(text, changes) ==
    IF changes = <<>> THEN [panic |-> FALSE, rope |-> text]
    ELSE LET r == ApplyChange(text, Head(changes))
         IN  IF r.panic THEN r ELSE ApplyChanges(r.rope, Tail(changes))

\* What the editor itself does with a change (the LSP meaning of a ranged
\* edit): defined only for a range inside the text.
ValidChange(text, change) ==
    /\ line_to_char(text, change.sl) >= 0
    /\ line_to_char(text, change.el) >= 0
    /\ line_to_char(text, change.sl) + change.sc
          <= line_to_char(text, change.el) + change.ec
    /\ line_to_char(text, change.el) + change.ec <= Len(text)

EditorApply(text, change) ==
    LET s == line_to_char(text, change.sl) + change.sc
        e == line_to_char(text, change.el) + change.ec
    IN  SubSeq(text, 1, s) \o change.text \o SubSeq(text, e + 1, Len(text))

-----------------------------------------------------------------------------
(* Syntax trees and the three parsers.                                     *)

Row(text, i) == Cardinality({j \in Newlines(text) : j < i})

Col(text, i) ==
    LET before == {j \in Newlines(text) : j < i}
    IN  IF before = {} THEN i - 1
        ELSE i - 1 - (CHOOSE j \in before : \A k \in before : k <= j)

RECURSIVE EntriesFrom(_, _)
EntriesFrom(text, i) ==
    IF i > Len(text) THEN <<>>
    ELSE IF text[i] = "\n" THEN EntriesFrom(text, i + 1)
    ELSE <<[byte |-> i, range |-> <<Row(text, i), Col(text, i)>>]>>
            \o EntriesFrom(text, i + 1)

Entries(text) == EntriesFrom(text, 1)

RootKind(ext, text) ==
    IF ext # "yml" THEN "compilation_unit"
    ELSE IF Entries(text) = <<>> THEN "stream"
    ELSE IF text[Entries(text)[1].byte] = "m" THEN "block_mapping"
    ELSE "block_sequence"

\* tree_sitter::Parser::parse(text, None): the concrete syntax tree of a text.
ParseTree(ext, text) ==
    [lang |-> ext, root |-> RootKind(ext, text),
     nodes |-> Entries(text), end_byte |-> Len(text)]

\* The tree that keeps the nodes of a hint where they stand and parses only
\* the text past the hint's end.
Reused(ext, text, hint) ==
    [lang |-> ext, root |-> hint.root,
     nodes |-> SelectSeq(hint.nodes, LAMBDA n : n.byte <= Len(text))
                  \o SelectSeq(Entries(text), LAMBDA n : n.byte > hint.end_byte),
     end_byte |-> Len(text)]

\* tree_sitter::Parser::parse(text, old_tree).  The hint is never edited
\* (Tree::edit) to match the new text, which the parser requires of a hint
\* whose text has changed: the parser takes every node of the hint as
\* unchanged and may reuse it, so the outcome is the parse of the text or
\* the tree that reuses the hint.
Reparse(ext, text, hint) ==
    IF hint = NoTree THEN {ParseTree(ext, text)}
    ELSE {ParseTree(ext, text), Reused(ext, text, hint)}

DefinitionIndex(path, range) == [path |-> path, range |-> range]

\* DefinitionIndex::default(): an empty path and no range.
DefaultIndex == DefinitionIndex("", <<>>)

YamlPrototype(prototype, id, index) ==
    [prototype |-> prototype, id |-> id, index |-> index]

CsharpClass(name, index) == [name |-> name, index |-> index]

FluentKey(key, index) == [key |-> key, index |-> index]

\* Node::utf8_text(src): the text of a node, read from the source.
utf8_text(node, src) == src[node.byte]

\* get_yaml_prototype: an item without both `type` and `id` yields nothing.
HasPrototype(node, src) == utf8_text(node, src) \in {"H", "D"}

get_yaml_prototype(node, src, path) ==
    YamlPrototype("entity",
                  IF utf8_text(node, src) = "H" THEN "Human" ELSE "Dwarf",
                  DefinitionIndex(path, node.range))

\* The records of the nodes of a tree, in document order.  A class gets
\* the default index (CsharpClass::get), a prototype and a locale key the
\* path and the range of the node.
RECURSIVE MapNodes(_, _, _, _)
MapNodes(nodes, src, path, lang) ==
    IF nodes = <<>> THEN <<>>
    ELSE LET n == Head(nodes)
             rest == MapNodes(Tail(nodes), src, path, lang)
         IN  IF lang = "yml"
             THEN (IF HasPrototype(n, src)
                   THEN <<get_yaml_prototype(n, src, path)>> \o rest
                   ELSE rest)
             ELSE IF lang = "cs"
             THEN <<CsharpClass(utf8_text(n, src), DefaultIndex)>> \o rest
             ELSE <<FluentKey(utf8_text(n, src),
                              DefinitionIndex(path, n.range))>> \o rest

\* yaml::p after the tree is built: the records of a top-level block
\* sequence, or the parse-failure signal.
YamlExtract(path, tree, src) ==
    IF tree.root # "block_sequence" THEN Err
    ELSE Ok(MapNodes(tree.nodes, src, path, "yml"))

\* csharp::parse after the tree is built: every class declaration.
CsharpExtract(path, tree, src) == Ok(MapNodes(tree.nodes, src, path, "cs"))

\* fluent::p: every message with a value.
FluentExtract(path, text) == Ok(MapNodes(Entries(text), text, path, "ftl"))

\* Both tree parsers store the new tree only over an existing entry
\* (`lock.get_mut(&path)`); a path without an entry gets none.
StoreTree(files, path, tree) ==
    IF files[path] # NoTree THEN [files EXCEPT ![path] = tree] ELSE files

-----------------------------------------------------------------------------
(* Symbol tables: hash sets whose equality and hash use the identity.      *)

Ident(table, r) ==
    IF table = "prototypes" THEN <<r.prototype, r.id>>
    ELSE IF table = "classes" THEN <<r.name>>
    ELSE <<r.key>>

Contains(table, set, r) == \E x \in set : Ident(table, x) = Ident(table, r)

\* Mutant of Insert: the new element replaces an equal one.
InsertOverwrite(table, set, r) ==
    {x \in set : Ident(table, x) # Ident(table, r)} \cup {r}

\* HashSet::insert: when an equal element is present the set is left as
\* it is (the element already stored is kept).
Insert(table, set, r) ==
    IF Contains(table, set, r) THEN set ELSE set \cup {r}

\* Mutant of Remove: the element stays.
RemoveNothing(table, set, r) == set

\* HashSet::remove: removes the element equal to r.
Remove(table, set, r) == {x \in set : Ident(table, x) # Ident(table, r)}

RECURSIVE Extend(_, _, _)
Extend(table, set, items) ==
    IF items = <<>> THEN set
    ELSE Extend(table, Insert(table, set, Head(items)), Tail(items))

RECURSIVE RemoveAll(_, _, _)
RemoveAll(table, set, items) ==
    IF items = {} THEN set
    ELSE LET r == CHOOSE x \in items : TRUE
         IN  RemoveAll(table, Remove(table, set, r), items \ {r})

\* Mutant of SaveDiff: no record counts as stale.
SaveDiffNone(table, set, path, parsed) == {}

\* did_save: the records of the saved path that the new parse lacks.
SaveDiff(table, set, path, parsed) ==
    {r \in set : r.index.path = path /\ ~Contains(table, SeqToSet(parsed), r)}

-----------------------------------------------------------------------------
(* State.                                                                  *)

VARIABLES
    disk,          \* path -> contents of the file on disk
    editor,        \* path -> the editor's document (open flag, text)
    context,       \* Context: classes, prototypes, locales, parsed_files
    wlock,         \* table -> handler that holds its write lock, or 0
    opened_files,  \* Backend::opened_files: url -> OpenedFile or NoFile
    ropes,         \* the shared ropes (Arc<RwLock<Rope>>), by allocation order
    h,             \* handler slot -> the running handler and its locals
    ingest,        \* path -> progress of the ingest task of that file
    events,        \* notifications delivered so far
    committed,     \* table -> its contents at the last release of the write lock
    changed,       \* url -> the changes applied to the current buffer, in order
    overlapped,    \* two tasks have been in flight at the same time
    nfiles,        \* parse_project: file group -> number of files collected
    workers,       \* worker threads of the runtime
    tasks,         \* parse_project: file -> state of its parse task
    chan,          \* parse_project: reader -> messages sent and not received
    reader,        \* parse_project: reader -> position and counters
    token,         \* progress token -> what the client was last told
    call           \* the call of a pure operation under study and its result

backend_vars == <<disk, editor, context, wlock, opened_files, ropes, h,
                  ingest, events, committed, changed, overlapped>>

project_vars == <<nfiles, workers, tasks, chan, reader, token>>

vars == <<backend_vars, project_vars, call>>

Tables == {"classes", "prototypes", "locales"}

TableOf(path) ==
    IF get_ext(path) = "yml" THEN "prototypes"
    ELSE IF get_ext(path) = "cs" THEN "classes"
    ELSE "locales"

Idle == [pc |-> "idle"]

InitText == <<"H">>

\* The ranged edits the editor sends.
Changes ==
    { [sl |-> 0, sc |-> 0, el |-> 0, ec |-> 1, text |-> <<"D">>],   \* replace
      [sl |-> 0, sc |-> 0, el |-> 0, ec |-> 0, text |-> <<"D">>],   \* insert
      [sl |-> 0, sc |-> 0, el |-> 0, ec |-> 0, text |-> <<"m">>] }

BackendInit ==
    /\ disk = [p \in Paths |-> InitText]
    /\ editor = [p \in Paths |-> [open |-> FALSE, text |-> <<>>]]
    /\ context = [classes |-> {}, prototypes |-> {}, locales |-> {},
                  parsed_files |-> [p \in Paths |-> NoTree]]
    /\ wlock = [t \in Tables |-> 0]
    /\ opened_files = [p \in Paths |-> NoFile]
    /\ ropes = <<>>
    /\ h = [s \in Slots |-> Idle]
    /\ ingest = [p \in Paths |-> [st |-> "todo"]]
    /\ events = 0
    /\ committed = [t \in Tables |-> {}]
    /\ changed = [p \in Paths |-> <<>>]
    /\ overlapped = FALSE

Groups == {"prototypes", "components", "yaml_prototypes", "other"}

Readers == {"main", "other"}

NoCall == [fn |-> "none"]

\* No project is being parsed by parse_project.
NoProject ==
    /\ nfiles = [g \in Groups |-> 0]
    /\ workers = 1
    /\ tasks = <<>>
    /\ chan = [r \in Readers |-> <<>>]
    /\ reader = [r \in Readers |-> [pc |-> "done"]]
    /\ token = [g \in Groups |-> [open |-> FALSE]]

Init == BackendInit /\ NoProject /\ call = NoCall

Busy(hh) == {s \in Slots : hh[s].pc # "idle"}

InFlight(hh, ing) ==
    Cardinality(Busy(hh)) + Cardinality({p \in Paths : ing[p].st = "parsed"})

Overlap(hh, ing) == overlapped \/ InFlight(hh, ing) >= 2

\* A notification or request starts in the lowest free slot.
FreeSlot(s) ==
    /\ h[s].pc = "idle"
    /\ \A t \in Slots : t < s => h[t].pc # "idle"

\* Every file of the project has been ingested.
IngestDone == \A p \in Paths : ingest[p].st = "done"

\* Backend::initialized keeps the guard of the root_uri mutex until the
\* parse of the project returns.
RootUriFree == IngestDone

\* Mutant of FilesReaders: did_change keeps its read guard while it asks for
\* the write guard.
FilesReadersKept ==
    {s \in Slots : h[s].pc \in {"c_rope", "c_insert", "g_scan", "g_ret",
                                 "q_comp", "q_fields"}}

\* Handlers that hold a read guard of the open-buffer map.
FilesReaders ==
    {s \in Slots : h[s].pc \in {"c_rope", "g_scan", "g_ret",
                                 "q_comp", "q_fields"}}

-----------------------------------------------------------------------------
(* The editor: it opens, edits, saves and closes documents and sends the   *)
(* matching notification; the handler starts in a free slot.               *)

EditorOpen(s, url) ==
    /\ FreeSlot(s)
    /\ events < MaxEvents
    /\ ~editor[url].open
    /\ editor' = [editor EXCEPT ![url] = [open |-> TRUE, text |-> disk[url]]]
    /\ h' = [h EXCEPT ![s] = [op |-> "did_open", pc |-> "o_tree", url |-> url]]
    /\ events' = events + 1
    /\ overlapped' = Overlap(h', ingest)
    /\ UNCHANGED <<disk, context, wlock, opened_files, ropes, ingest,
                   committed, changed>>
    /\ UNCHANGED <<project_vars, call>>

EditorChange(s, url, change) ==
    /\ FreeSlot(s)
    /\ events < MaxEvents
    /\ editor[url].open
    /\ ValidChange(editor[url].text, change)
    /\ Len(EditorApply(editor[url].text, change)) <= MaxLen
    /\ editor' = [editor EXCEPT
                    ![url].text = EditorApply(editor[url].text, change)]
    /\ h' = [h EXCEPT ![s] = [op |-> "did_change", pc |-> "c_files",
                              url |-> url, seq |-> events + 1,
                              content_changes |-> <<change>>]]
    /\ events' = events + 1
    /\ overlapped' = Overlap(h', ingest)
    /\ UNCHANGED <<disk, context, wlock, opened_files, ropes, ingest,
                   committed, changed>>
    /\ UNCHANGED <<project_vars, call>>

EditorSave(s, url) ==
    /\ FreeSlot(s)
    /\ events < MaxEvents
    /\ editor[url].open
    /\ disk' = [disk EXCEPT ![url] = editor[url].text]
    /\ h' = [h EXCEPT ![s] = [op |-> "did_save", pc |-> "s_parse", url |-> url]]
    /\ events' = events + 1
    /\ overlapped' = Overlap(h', ingest)
    /\ UNCHANGED <<editor, context, wlock, opened_files, ropes, ingest,
                   committed, changed>>
    /\ UNCHANGED <<project_vars, call>>

\* The backend implements no did_close: the notification changes nothing.
EditorClose(url) ==
    /\ editor[url].open
    /\ editor' = [editor EXCEPT ![url] = [open |-> FALSE, text |-> <<>>]]
    /\ UNCHANGED <<disk, context, wlock, opened_files, ropes, h, ingest,
                   events, committed, changed, overlapped>>
    /\ UNCHANGED <<project_vars, call>>

-----------------------------------------------------------------------------
(* Backend::did_open                                                       *)

\* parsed_files.read(): look the cached tree up; read the file when the tree
\* is there, return when it is not.
OpenTree(s) ==
    /\ h[s].pc = "o_tree"
    /\ LET tree == context.parsed_files[h[s].url]
       IN  h' = [h EXCEPT ![s] =
                    IF tree = NoTree THEN Idle
                    ELSE [op |-> "did_open", pc |-> "o_insert", url |-> h[s].url,
                          tree |-> tree, content |-> disk[h[s].url]]]
    /\ overlapped' = Overlap(h', ingest)
    /\ UNCHANGED <<disk, editor, context, wlock, opened_files, ropes, ingest,
                   events, committed, changed>>
    /\ UNCHANGED <<project_vars, call>>

\* Mutant of OpenInsert: the buffer is attached with an empty rope.
OpenInsertEmptyRope(s) ==
    /\ h[s].pc = "o_insert"
    /\ FilesReaders = {}
    /\ ropes' = Append(ropes, <<>>)
    /\ opened_files' = [opened_files EXCEPT ![h[s].url] =
                          [open |-> TRUE, rope |-> Len(ropes) + 1,
                           tree |-> h[s].tree]]
    /\ changed' = [changed EXCEPT ![h[s].url] = <<>>]
    /\ h' = [h EXCEPT ![s] = Idle]
    /\ overlapped' = Overlap(h', ingest)
    /\ UNCHANGED <<disk, editor, context, wlock, ingest, events, committed>>
    /\ UNCHANGED <<project_vars, call>>

\* opened_files.write(): attach a new rope with the cached tree.
OpenInsert(s) ==
    /\ h[s].pc = "o_insert"
    /\ FilesReaders = {}
    /\ ropes' = Append(ropes, h[s].content)
    /\ opened_files' = [opened_files EXCEPT ![h[s].url] =
                          [open |-> TRUE, rope |-> Len(ropes) + 1,
                           tree |-> h[s].tree]]
    /\ changed' = [changed EXCEPT ![h[s].url] = <<>>]
    /\ h' = [h EXCEPT ![s] = Idle]
    /\ overlapped' = Overlap(h', ingest)
    /\ UNCHANGED <<disk, editor, context, wlock, ingest, events, committed>>
    /\ UNCHANGED <<project_vars, call>>

-----------------------------------------------------------------------------
(* Backend::did_change                                                     *)

\* opened_files.read(): find the buffer; the read guard is kept.
ChangeFiles(s) ==
    /\ h[s].pc = "c_files"
    /\ LET file == opened_files[h[s].url]
       IN  h' = [h EXCEPT ![s] =
                    IF file = NoFile THEN Idle
                    ELSE [h[s] EXCEPT !.pc = "c_rope"] @@
                         [rope |-> file.rope, tree |-> file.tree]]
    /\ overlapped' = Overlap(h', ingest)
    /\ UNCHANGED <<disk, editor, context, wlock, opened_files, ropes, ingest,
                   events, committed, changed>>
    /\ UNCHANGED <<project_vars, call>>

\* Handlers that hold a read guard of the rope: a query holds it, with the
\* read guard of the open-buffer map, while its provider runs.
RopeReaders(rope) ==
    {s \in Slots : /\ h[s].pc \in {"g_ret", "q_comp", "q_fields"}
                   /\ opened_files[h[s].url] # NoFile
                   /\ opened_files[h[s].url].rope = rope}

\* rope.write(): apply the edits, parse the rope for a C# or YAML file with
\* the buffer's tree as hint and drop both guards.
ChangeRope(s) ==
    /\ h[s].pc = "c_rope"
    /\ RopeReaders(h[s].rope) = {}
    /\ LET r == ApplyChanges(ropes[h[s].rope], h[s].content_changes)
           ext == get_ext(h[s].url)
       IN  /\ ropes' = [ropes EXCEPT ![h[s].rope] = r.rope]
           /\ IF r.panic \/ ext \notin {"cs", "yml"}
              THEN /\ h' = [h EXCEPT ![s] = Idle]
                   /\ UNCHANGED changed
              ELSE \E new_tree \in Reparse(ext, r.rope, h[s].tree) :
                   /\ h' = [h EXCEPT ![s] =
                              [op |-> "did_change", pc |-> "c_insert",
                               url |-> h[s].url, seq |-> h[s].seq,
                               rope |-> h[s].rope, tree |-> new_tree]]
                   /\ changed' = [changed EXCEPT ![h[s].url] =
                                    Append(@, [seq |-> h[s].seq,
                                               tree |-> new_tree])]
    /\ overlapped' = Overlap(h', ingest)
    /\ UNCHANGED <<disk, editor, context, wlock, opened_files, ingest, events,
                   committed>>
    /\ UNCHANGED <<project_vars, call>>

\* opened_files.write(): attach the same rope with the new tree.
ChangeInsert(s) ==
    /\ h[s].pc = "c_insert"
    /\ FilesReaders = {}
    /\ opened_files' = [opened_files EXCEPT ![h[s].url] =
                          [open |-> TRUE, rope |-> h[s].rope, tree |-> h[s].tree]]
    /\ h' = [h EXCEPT ![s] = [h[s] EXCEPT !.pc = "c_store"]]
    /\ overlapped' = Overlap(h', ingest)
    /\ UNCHANGED <<disk, editor, context, wlock, ropes, ingest, events,
                   committed, changed>>
    /\ UNCHANGED <<project_vars, call>>

\* parsed_files.write(): cache the new tree.
ChangeStore(s) ==
    /\ h[s].pc = "c_store"
    /\ context' = [context EXCEPT !.parsed_files[h[s].url] = h[s].tree]
    /\ h' = [h EXCEPT ![s] = Idle]
    /\ overlapped' = Overlap(h', ingest)
    /\ UNCHANGED <<disk, editor, wlock, opened_files, ropes, ingest, events,
                   committed, changed>>
    /\ UNCHANGED <<project_vars, call>>

-----------------------------------------------------------------------------
(* Backend::did_save                                                       *)

\* The parser of the extension over the file on disk, as did_save and the
\* ingest run it, with the cached tree of the path as hint: the outcomes,
\* each the tree, the Parsed-File Map after the parse and the result.
ParseFile(path, files, text) ==
    LET ext == get_ext(path)
    IN  IF ext = "yml"
        THEN {[tree |-> tree, files |-> StoreTree(files, path, tree),
               result |-> YamlExtract(path, tree, text)] :
                  tree \in Reparse(ext, text, files[path])}
        ELSE IF ext = "cs"
        THEN {[tree |-> tree, files |-> StoreTree(files, path, tree),
               result |-> CsharpExtract(path, tree, text)] :
                  tree \in Reparse(ext, text, files[path])}
        ELSE {[tree |-> NoTree, files |-> files,
               result |-> FluentExtract(path, text)]}

\* The extensions did_save has a branch for.
SavedExt(ext) == ext \in {"cs", "yml"}

\* yaml::parse / csharp::parse over the saved file; any other extension and
\* a failed parse return at once.
SaveParse(s) ==
    /\ h[s].pc = "s_parse"
    /\ LET url == h[s].url
       IN  IF ~SavedExt(get_ext(url))
           THEN /\ h' = [h EXCEPT ![s] = Idle]
                /\ UNCHANGED context
           ELSE \E r \in ParseFile(url, context.parsed_files, disk[url]) :
                /\ context' = [context EXCEPT !.parsed_files = r.files]
                /\ h' = [h EXCEPT ![s] =
                           IF r.result.ok
                           THEN [op |-> "did_save", pc |-> "s_lock", url |-> url,
                                 parsed |-> r.result.items]
                           ELSE Idle]
    /\ overlapped' = Overlap(h', ingest)
    /\ UNCHANGED <<disk, editor, wlock, opened_files, ropes, ingest, events,
                   committed, changed>>
    /\ UNCHANGED <<project_vars, call>>

\* <table>.write(): take the write lock and collect the stale records.
SaveLock(s) ==
    /\ h[s].pc = "s_lock"
    /\ LET t == TableOf(h[s].url)
       IN  /\ wlock[t] = 0
           /\ wlock' = [wlock EXCEPT ![t] = s]
           /\ h' = [h EXCEPT ![s] =
                      [h[s] EXCEPT !.pc = "s_insert"] @@
                      [diff |-> SaveDiff(t, context[t], h[s].url, h[s].parsed)]]
    /\ overlapped' = Overlap(h', ingest)
    /\ UNCHANGED <<disk, editor, context, opened_files, ropes, ingest, events,
                   committed, changed>>
    /\ UNCHANGED <<project_vars, call>>

\* for record in parsed { lock.insert(record) }
SaveInsert(s) ==
    /\ h[s].pc = "s_insert"
    /\ LET t == TableOf(h[s].url)
       IN  context' = [context EXCEPT ![t] = Extend(t, @, h[s].parsed)]
    /\ h' = [h EXCEPT ![s].pc = "s_remove"]
    /\ overlapped' = Overlap(h', ingest)
    /\ UNCHANGED <<disk, editor, wlock, opened_files, ropes, ingest, events,
                   committed, changed>>
    /\ UNCHANGED <<project_vars, call>>

\* for record in diff { lock.remove(record) }; the guard is dropped.
SaveRemove(s) ==
    /\ h[s].pc = "s_remove"
    /\ LET t == TableOf(h[s].url)
       IN  /\ context' = [context EXCEPT ![t] = RemoveAll(t, @, h[s].diff)]
           /\ wlock' = [wlock EXCEPT ![t] = 0]
           /\ committed' = [committed EXCEPT ![t] = context'[t]]
    /\ h' = [h EXCEPT ![s] = Idle]
    /\ overlapped' = Overlap(h', ingest)
    /\ UNCHANGED <<disk, editor, opened_files, ropes, ingest, events, changed>>
    /\ UNCHANGED <<project_vars, call>>

-----------------------------------------------------------------------------
(* Backend::goto_definition on a parent id: a scan of the Prototype Table. *)

GotoStart(s, url) ==
    /\ FreeSlot(s)
    /\ editor[url].open
    /\ get_ext(url) = "yml"
    /\ h' = [h EXCEPT ![s] = [op |-> "goto_definition", pc |-> "g_files",
                              url |-> url]]
    /\ overlapped' = Overlap(h', ingest)
    /\ UNCHANGED <<disk, editor, context, wlock, opened_files, ropes, ingest,
                   events, committed, changed>>
    /\ UNCHANGED <<project_vars, call>>

\* opened_files.read(): find the buffer; the read guard is kept.
GotoFiles(s) ==
    /\ h[s].pc = "g_files"
    /\ h' = [h EXCEPT ![s] =
                IF opened_files[h[s].url] = NoFile THEN Idle
                ELSE [h[s] EXCEPT !.pc = "g_scan"]]
    /\ overlapped' = Overlap(h', ingest)
    /\ UNCHANGED <<disk, editor, context, wlock, opened_files, ropes, ingest,
                   events, committed, changed>>
    /\ UNCHANGED <<project_vars, call>>

\* Mutant of Readable: the scan does not wait for the writer.
ReadableAlways(t) == TRUE

\* A read guard of a table is granted while no writer holds the lock.
Readable(t) == wlock[t] = 0

\* root_uri.lock(), then prototypes.blocking_read(): the records the scan
\* sees.
GotoScan(s) ==
    /\ h[s].pc = "g_scan"
    /\ RootUriFree
    /\ Readable("prototypes")
    /\ h' = [h EXCEPT ![s] =
                [op |-> "goto_definition", pc |-> "g_ret", url |-> h[s].url,
                 seen |-> context.prototypes,
                 linearized |-> committed.prototypes]]
    /\ overlapped' = Overlap(h', ingest)
    /\ UNCHANGED <<disk, editor, context, wlock, opened_files, ropes, ingest,
                   events, committed, changed>>
    /\ UNCHANGED <<project_vars, call>>

GotoReturn(s) ==
    /\ h[s].pc = "g_ret"
    /\ h' = [h EXCEPT ![s] = Idle]
    /\ overlapped' = Overlap(h', ingest)
    /\ UNCHANGED <<disk, editor, context, wlock, opened_files, ropes, ingest,
                   events, committed, changed>>
    /\ UNCHANGED <<project_vars, call>>

-----------------------------------------------------------------------------
(* Ingest of one file: parse, then dispatch the result to its table.       *)

\* The tasks of different files write different tables and different keys of
\* the Parsed-File Map, so their steps commute: they are taken in path order.
IngestOrder == <<"c.cs", "l.ftl", "a.yml">>

IngestTurn(path) ==
    \A i, j \in 1..Len(IngestOrder) :
        (i < j /\ IngestOrder[j] = path) => ingest[IngestOrder[i]].st = "done"

IngestParseFile(path) ==
    /\ ingest[path].st = "todo"
    /\ \E r \in ParseFile(path, context.parsed_files, disk[path]) :
           /\ context' = [context EXCEPT !.parsed_files = r.files]
           /\ ingest' = [ingest EXCEPT ![path] =
                           [st |-> "parsed", tree |-> r.tree, result |-> r.result]]
    /\ overlapped' = Overlap(h, ingest')
    /\ UNCHANGED <<disk, editor, wlock, opened_files, ropes, h, events,
                   committed, changed>>
    /\ UNCHANGED <<project_vars, call>>

IngestParse(path) == IngestTurn(path) /\ IngestParseFile(path)

\* Mutant of Dispatch: a failed parse empties the table.
DispatchOrClear(t, set, result) ==
    IF result.ok THEN Extend(t, set, result.items) ELSE {}

\* dispatch: `context.<table>.write().await.extend(records)`; a failed
\* parse is dropped.
Dispatch(t, set, result) ==
    IF result.ok THEN Extend(t, set, result.items) ELSE set

\* The caller installs the tree a successful parse yields.
InstallTree(files, path, task) ==
    IF task.result.ok /\ task.tree # NoTree
    THEN [files EXCEPT ![path] = task.tree]
    ELSE files

IngestDispatch(path) ==
    /\ ingest[path].st = "parsed"
    /\ LET t == TableOf(path)
       IN  /\ wlock[t] = 0
           /\ context' = [context EXCEPT
                 ![t] = Dispatch(t, @, ingest[path].result),
                 !.parsed_files = InstallTree(@, path, ingest[path])]
           /\ committed' = [committed EXCEPT ![t] = context'[t]]
    /\ ingest' = [ingest EXCEPT ![path] = [st |-> "done"]]
    /\ overlapped' = Overlap(h, ingest')
    /\ UNCHANGED <<disk, editor, wlock, opened_files, ropes, h, events, changed>>
    /\ UNCHANGED <<project_vars, call>>

-----------------------------------------------------------------------------

Next ==
    \/ \E s \in Slots, url \in Paths : EditorOpen(s, url)
    \/ \E s \in Slots, url \in Paths, c \in Changes : EditorChange(s, url, c)
    \/ \E s \in Slots, url \in Paths : EditorSave(s, url)
    \/ \E url \in Paths : EditorClose(url)
    \/ \E s \in Slots : OpenTree(s)
    \/ \E s \in Slots : OpenInsert(s)
    \/ \E s \in Slots : ChangeFiles(s)
    \/ \E s \in Slots : ChangeRope(s)
    \/ \E s \in Slots : ChangeInsert(s)
    \/ \E s \in Slots : ChangeStore(s)
    \/ \E s \in Slots : SaveParse(s)
    \/ \E s \in Slots : SaveLock(s)
    \/ \E s \in Slots : SaveInsert(s)
    \/ \E s \in Slots : SaveRemove(s)
    \/ \E s \in Slots, url \in Paths : GotoStart(s, url)
    \/ \E s \in Slots : GotoFiles(s)
    \/ \E s \in Slots : GotoScan(s)
    \/ \E s \in Slots : GotoReturn(s)
    \/ \E path \in Paths : IngestParse(path)
    \/ \E path \in Paths : IngestDispatch(path)

Spec == Init /\ [][Next]_vars

-----------------------------------------------------------------------------
(* The queries that consult the Class Table through the ReflectionManager: *)
(* Backend::completion and Backend::inlay_hint on a field of a component.  *)

CompletionStart(s, url) ==
    /\ FreeSlot(s)
    /\ editor[url].open
    /\ h' = [h EXCEPT ![s] = [op |-> "completion", pc |-> "q_root",
                              url |-> url]]
    /\ overlapped' = Overlap(h', ingest)
    /\ UNCHANGED <<disk, editor, context, wlock, opened_files, ropes, ingest,
                   events, committed, changed>>
    /\ UNCHANGED <<project_vars, call>>

\* root_uri.lock(), then opened_files.read(): a url without a buffer is
\* answered with None.
CompletionRoot(s) ==
    /\ h[s].pc = "q_root"
    /\ RootUriFree
    /\ h' = [h EXCEPT ![s] =
                IF opened_files[h[s].url] = NoFile THEN Idle
                ELSE [h[s] EXCEPT !.pc = "q_comp"]]
    /\ overlapped' = Overlap(h', ingest)
    /\ UNCHANGED <<disk, editor, context, wlock, opened_files, ropes, ingest,
                   events, committed, changed>>
    /\ UNCHANGED <<project_vars, call>>

\* inlay_hint takes opened_files.read() and no other lock.
InlayHintStart(s, url) ==
    /\ FreeSlot(s)
    /\ editor[url].open
    /\ opened_files[url] # NoFile
    /\ h' = [h EXCEPT ![s] = [op |-> "inlay_hint", pc |-> "q_comp",
                              url |-> url]]
    /\ overlapped' = Overlap(h', ingest)
    /\ UNCHANGED <<disk, editor, context, wlock, opened_files, ropes, ingest,
                   events, committed, changed>>
    /\ UNCHANGED <<project_vars, call>>

\* The name the query looks up: the text under the cursor, here the first
\* entry of the buffer.
ObjectName(url) ==
    LET rope == ropes[opened_files[url].rope]
    IN  IF rope = <<>> THEN "" ELSE rope[1]

\* ReflectionManager::get_component_by_name: one read guard of the Class
\* Table, dropped when the lookup returns; no component, no answer.
GetComponentByName(s) ==
    /\ h[s].pc = "q_comp"
    /\ Readable("classes")
    /\ h' = [h EXCEPT ![s] =
                IF \E c \in context.classes : c.name = ObjectName(h[s].url)
                THEN [op |-> h[s].op, pc |-> "q_fields", url |-> h[s].url,
                      comp_read |-> context.classes]
                ELSE Idle]
    /\ overlapped' = Overlap(h', ingest)
    /\ UNCHANGED <<disk, editor, context, wlock, opened_files, ropes, ingest,
                   events, committed, changed>>
    /\ UNCHANGED <<project_vars, call>>

\* ReflectionManager::get_fields: a second read guard of the Class Table,
\* from which the answer is built and returned.
GetFields(s) ==
    /\ h[s].pc = "q_fields"
    /\ Readable("classes")
    /\ h' = [h EXCEPT ![s] = Idle]
    /\ overlapped' = Overlap(h', ingest)
    /\ UNCHANGED <<disk, editor, context, wlock, opened_files, ropes, ingest,
                   events, committed, changed>>
    /\ UNCHANGED <<project_vars, call>>

\* parse_project hands the C# files that are neither prototypes nor
\* components to background tasks it does not join: each is parsed and its
\* classes extend the Class Table.  The editor never opens these files.
OtherFiles == {"o.cs"}

OtherText == <<"D">>

IngestOther(path) ==
    /\ wlock["classes"] = 0
    /\ LET parsed_classes ==
               CsharpExtract(path, ParseTree("cs", OtherText), OtherText)
       IN  context' = [context EXCEPT
                         !.classes = Dispatch("classes", @, parsed_classes)]
    /\ committed' = [committed EXCEPT !.classes = context'.classes]
    /\ UNCHANGED <<disk, editor, wlock, opened_files, ropes, h, ingest, events,
                   changed, overlapped>>
    /\ UNCHANGED <<project_vars, call>>

\* The queries beside the ingest, whose tasks run in any order, and the
\* opening of buffers.
QueryNext ==
    \/ \E s \in Slots, url \in Paths : EditorOpen(s, url)
    \/ \E s \in Slots : OpenTree(s)
    \/ \E s \in Slots : OpenInsert(s)
    \/ \E s \in Slots, url \in YamlPaths : GotoStart(s, url)
    \/ \E s \in Slots : GotoFiles(s)
    \/ \E s \in Slots : GotoScan(s)
    \/ \E s \in Slots : GotoReturn(s)
    \/ \E s \in Slots, url \in YamlPaths : CompletionStart(s, url)
    \/ \E s \in Slots : CompletionRoot(s)
    \/ \E s \in Slots, url \in YamlPaths : InlayHintStart(s, url)
    \/ \E s \in Slots : GetComponentByName(s)
    \/ \E s \in Slots : GetFields(s)
    \/ \E path \in Paths : IngestParseFile(path)
    \/ \E path \in OtherFiles : IngestOther(path)
    \/ \E path \in Paths : IngestDispatch(path)

QuerySpec == Init /\ [][QueryNext]_vars

-----------------------------------------------------------------------------
(* parse_project: the files collected in four groups, one task per file,   *)
(* a reader task for the three groups parse_project joins and one for the  *)
(* other files, and a progress token per group.                            *)

\* The files of the project, all groups together.
MaxFiles == 2

MaxWorkers == 2

Files == {<<g, i>> : g \in Groups, i \in 1..MaxFiles}

Collected == {f \in Files : f[2] <= nfiles[f[1]]}

\* The channel a task of the group sends to, by the reader that drains it.
ReaderOf(g) == IF g = "other" THEN "other" ELSE "main"

\* The table the reader extends with a result of the group.
GroupTable(g) == IF g = "yaml_prototypes" THEN "prototypes" ELSE "classes"

\* The token the reader advances on a result of the group: proto_status on
\* a Prototypes and on a YamlPrototypes result, comps_status on a Components
\* result, other_status on the result of an other file.
StatusOf(g) == IF g = "yaml_prototypes" THEN "prototypes" ELSE g

\* What a successful parse of the file yields.
FileRecords(f) ==
    IF f[1] = "yaml_prototypes"
    THEN <<YamlPrototype("entity", f, DefinitionIndex(f, <<0, 0>>))>>
    ELSE <<CsharpClass(f, DefaultIndex)>>

\* utils::percentage: (100 * actual / max).round() as u32.
percentage(actual, max) == (200 * actual + max) \div (2 * max)

\* ProgressStatus::next_state and ::finish, as the client sees the token.
next_state(status, next_percentage, next_message) ==
    [status EXCEPT !.percentage = next_percentage, !.message = next_message]

finish(status) == [status EXCEPT !.open = FALSE]

\* Semaphore::new(available_parallelism / 2); the runtime has one worker
\* thread per unit of available parallelism.
Threads == workers \div 2

\* A reader that has been polled sits in the blocking `for message in rx`
\* and keeps its worker thread until the channel is closed.
FreeWorkers == workers - Cardinality({r \in Readers : reader[r].pc = "recv"})

\* Every sender of the reader's channel is dropped: the tasks that hold a
\* clone have ended, and with them the scope that holds the original.
Closed(r) ==
    \A f \in Collected : ReaderOf(f[1]) = r => tasks[f] # "spawned"

\* collect_files: what the walk of the folders can find.
CollectFiles ==
    {n \in [Groups -> 0..MaxFiles] :
        n["prototypes"] + n["components"] + n["yaml_prototypes"] + n["other"]
            <= MaxFiles}

ProjectInit ==
    /\ BackendInit
    /\ call = NoCall
    /\ nfiles \in CollectFiles
    /\ workers \in 1..MaxWorkers
    /\ tasks = [f \in Files |->
                  IF f[2] <= nfiles[f[1]] THEN "spawned" ELSE "none"]
    /\ chan = [r \in Readers |-> <<>>]
    /\ reader = [r \in Readers |->
                   [pc |-> "spawned", actual |-> [g \in Groups |-> 0]]]
    /\ token = [g \in Groups |->
                  [open |-> TRUE, percentage |-> 0, message |-> <<>>]]

Outcomes == {"ok", "err", "panic"}

\* The task of one file: csharp::parse or yaml::parse, then tx.send.  An
\* unreadable file panics the task in File::open(..).unwrap() and nothing
\* is sent.  The task of an other file first acquires a permit.
ParseTask(f, outcome) ==
    /\ tasks[f] = "spawned"
    /\ FreeWorkers > 0
    /\ f[1] = "other" => Threads > 0
    /\ tasks' = [tasks EXCEPT ![f] = outcome]
    /\ chan' = IF outcome = "panic" THEN chan
               ELSE [chan EXCEPT ![ReaderOf(f[1])] =
                       Append(@, [group |-> f[1],
                                  result |-> IF outcome = "ok"
                                             THEN Ok(FileRecords(f))
                                             ELSE Err])]
    /\ UNCHANGED <<backend_vars, nfiles, workers, reader, token, call>>

\* The runtime polls the reader task for the first time.
ReaderStart(r) ==
    /\ reader[r].pc = "spawned"
    /\ FreeWorkers > 0
    /\ reader' = [reader EXCEPT ![r].pc = "recv"]
    /\ UNCHANGED <<backend_vars, nfiles, workers, tasks, chan, token, call>>

\* One turn of `for message in rx`: extend the table with a successful
\* result, count the result and report the count on a token.
ReaderReceive(r) ==
    /\ reader[r].pc = "recv"
    /\ chan[r] # <<>>
    /\ LET message == Head(chan[r])
           g == message.group
           t == GroupTable(g)
           actual == reader[r].actual[g] + 1
           percent == percentage(actual, nfiles[g])
       IN  /\ context' = [context EXCEPT ![t] = Dispatch(t, @, message.result)]
           /\ reader' = [reader EXCEPT ![r].actual[g] = actual]
           /\ token' = [token EXCEPT ![StatusOf(g)] =
                          next_state(@, percent, <<actual, nfiles[g]>>)]
    /\ chan' = [chan EXCEPT ![r] = Tail(@)]
    /\ UNCHANGED <<disk, editor, wlock, opened_files, ropes, h, ingest, events,
                   committed, changed, overlapped, nfiles, workers, tasks, call>>

\* The channel is closed and drained: the reader finishes its tokens.
ReaderFinish(r) ==
    /\ reader[r].pc = "recv"
    /\ chan[r] = <<>>
    /\ Closed(r)
    /\ token' = [g \in Groups |->
                   IF ReaderOf(g) = r THEN finish(token[g]) ELSE token[g]]
    /\ reader' = [reader EXCEPT ![r].pc = "done"]
    /\ UNCHANGED <<backend_vars, nfiles, workers, tasks, chan, call>>

ProjectNext ==
    \/ \E f \in Files, outcome \in Outcomes : ParseTask(f, outcome)
    \/ \E r \in Readers : ReaderStart(r)
    \/ \E r \in Readers : ReaderReceive(r)
    \/ \E r \in Readers : ReaderFinish(r)

ProjectSpec == ProjectInit /\ [][ProjectNext]_vars

\* The runtime runs every task that is ready and has a worker thread.
ProjectFairness ==
    /\ \A f \in Files : WF_vars(\E outcome \in Outcomes : ParseTask(f, outcome))
    /\ \A r \in Readers :
          WF_vars(ReaderStart(r) \/ ReaderReceive(r) \/ ReaderFinish(r))

ProjectFairSpec == ProjectSpec /\ ProjectFairness

-----------------------------------------------------------------------------
(* The pure operations: each is called once on an input drawn from a       *)
(* bounded set; `call` holds the input and then the result.                *)

\* par_iter().find_any(pred): any one of the elements that satisfy pred.
find_any(matching) == matching

CsharpObject(name, base, attributes, fields) ==
    [name |-> name, base |-> base, attributes |-> attributes,
     fields |-> fields]

\* A Class Table is a hash set whose equality is the name.
IsClassTable(classes) ==
    \A c1, c2 \in classes : c1.name = c2.name => c1 = c2

(* ReflectionManager::get_fields *)

\* The fields of the bases that are found, in the order of the base list.
RECURSIVE BaseFields(_, _)
BaseFields(classes, base) ==
    IF base = <<>> THEN {<<>>}
    ELSE LET found == find_any({c \in classes : c.name = Head(base)})
             first == IF found = {} THEN {<<>>} ELSE {c.fields : c \in found}
         IN  {x \o rest : x \in first, rest \in BaseFields(classes, Tail(base))}

\* Mutant of get_fields: the fields of the class itself come first.
get_fields_own_first(classes, class) ==
    {class.fields \o b : b \in BaseFields(classes, class.base)}

get_fields(classes, class) ==
    {b \o class.fields : b \in BaseFields(classes, class.base)}

MaxBase == 2

FieldLists == {<<"x">>, <<"x", "y">>}

BaseLists ==
    UNION {[1..n -> {"A", "B"}] : n \in 0..MaxBase}

FieldTables ==
    {classes \in SUBSET {CsharpObject(n, <<>>, <<>>, f) :
                            n \in {"A", "B"}, f \in FieldLists} :
        IsClassTable(classes)}

GetFieldsCalls ==
    {[fn |-> "get_fields", done |-> FALSE, classes |-> classes,
      class |-> CsharpObject("C", base, <<>>, fields)] :
        classes \in FieldTables, base \in BaseLists,
        fields \in {<<>>, <<"x">>}}

CallGetFields ==
    /\ call.fn = "get_fields"
    /\ ~call.done
    /\ \E result \in get_fields(call.classes, call.class) :
          call' = [fn |-> call.fn, done |-> TRUE, classes |-> call.classes,
                   class |-> call.class, result |-> result]
    /\ UNCHANGED <<backend_vars, project_vars>>

(* Strings: an identifier is its words and the case style they are       *)
(* written in; a string literal keeps its double quotes.                   *)

Str(words, style) == [words |-> words, style |-> style, quoted |-> FALSE]

Quoted(s) == [s EXCEPT !.quoted = TRUE]

\* str::trim_matches('"')
trim_matches(s) == [s EXCEPT !.quoted = FALSE]

\* stringcase::camel_case and ::pascal_case: the same words, restyled.
camel_case(s) == [s EXCEPT !.style = "camel"]

pascal_case(s) == [s EXCEPT !.style = "pascal"]

\* format!("{s}Prototype")
WithSuffix(s, word) == [s EXCEPT !.words = @ \o <<word>>]

\* str::trim_end_matches('?') on a type, the type being its tokens.
RECURSIVE trim_end_matches(_)
trim_end_matches(type_name) ==
    IF type_name # <<>> /\ type_name[Len(type_name)] = "?"
    THEN trim_end_matches(SubSeq(type_name, 1, Len(type_name) - 1))
    ELSE type_name

CsharpAttribute(name, arguments) == [name |-> name, arguments |-> arguments]

String(s) == [kind |-> "String", value |-> s]

Integer(i) == [kind |-> "Int", value |-> i]

\* CsharpAttributeCollection::get and ::contains
attributes_get(attributes, name) ==
    find_any({attr \in attributes : attr.name = name})

attributes_contains(attributes, name) ==
    \E attr \in attributes : attr.name = name

CsharpClassField(name, type_name, attributes) ==
    [name |-> name, type_name |-> type_name, attributes |-> attributes]

(* CsharpClassField::get_data_field_name *)

SpriteTypes == {<<"SpriteSpecifier.Rsi">>, <<"SpriteSpecifier">>}

Sprite == Str(<<"sprite">>, "camel")

get_data_field_name(field) ==
    LET found == attributes_get(field.attributes, "DataField")
    IN  IF found # {}
        THEN {IF "tag" \in DOMAIN attr.arguments
                 /\ attr.arguments["tag"].kind = "String"
              THEN trim_matches(attr.arguments["tag"].value)
              ELSE camel_case(field.name) : attr \in found}
        ELSE IF attributes_contains(field.attributes, "IncludeDataField")
                /\ trim_end_matches(field.type_name) \in SpriteTypes
        THEN {Sprite}
        ELSE {camel_case(field.name)}

NoArguments == [a \in {} |-> 0]

TagOf(value) == [a \in {"tag"} |-> value]

DataFieldAttributes ==
    {CsharpAttribute("DataField", NoArguments),
     CsharpAttribute("DataField",
                     TagOf(String(Quoted(Str(<<"my", "tag">>, "camel"))))),
     CsharpAttribute("DataField", TagOf(Integer(1)))}

\* No attribute is repeated on a field.
FieldAttributes ==
    {data \cup include :
        data \in {{}} \cup {{attr} : attr \in DataFieldAttributes},
        include \in {{}, {CsharpAttribute("IncludeDataField", NoArguments)}}}

TypeNames ==
    SpriteTypes \cup {<<"SpriteSpecifier", "?">>, <<"int">>}

DataFieldNameCalls ==
    {[fn |-> "get_data_field_name", done |-> FALSE,
      field |-> CsharpClassField(Str(<<"my", "field">>, style), type_name,
                                 attributes)] :
        style \in {"pascal", "camel"}, type_name \in TypeNames,
        attributes \in FieldAttributes}

CallGetDataFieldName ==
    /\ call.fn = "get_data_field_name"
    /\ ~call.done
    /\ \E result \in get_data_field_name(call.field) :
          call' = [fn |-> call.fn, done |-> TRUE, field |-> call.field,
                   result |-> result]
    /\ UNCHANGED <<backend_vars, project_vars>>

(* ReflectionManager::get_prototype_by_name *)

None == <<>>

Some(x) == <<x>>

\* The type argument of the Prototype attribute names the prototype.
TypeIs(c, name) ==
    \E attr \in attributes_get(c.attributes, "Prototype") :
        /\ "type" \in DOMAIN attr.arguments
        /\ attr.arguments["type"].kind = "String"
        /\ trim_matches(attr.arguments["type"].value) = name

MatchesName(c, name) ==
    LET normalized_name == pascal_case(name)
    IN  \/ c.name = normalized_name
        \/ c.name = WithSuffix(normalized_name, "prototype")
        \/ TypeIs(c, name)

\* impl TryFrom<Arc<CsharpObject>> for Prototype
IsPrototype(class) ==
    /\ "IPrototype" \in SeqToSet(class.base)
    /\ attributes_contains(class.attributes, "Prototype")

get_prototype_by_name(classes, name) ==
    LET matching == find_any({c \in classes : MatchesName(c, name)})
    IN  IF matching = {} THEN {None}
        ELSE {IF IsPrototype(class) THEN Some(class) ELSE None :
                 class \in matching}

Fo == Str(<<"fo">>, "camel")

TypeOf(value) == [a \in {"type"} |-> value]

\* The classes a table can hold: Fo, FoPrototype, and Other whose
\* Prototype attribute names fo; with or without the marker interface and
\* the attribute.
PrototypeClasses ==
    {CsharpObject(name, base, attributes, <<>>) :
        name \in {pascal_case(Fo), WithSuffix(pascal_case(Fo), "prototype")},
        base \in {<<>>, <<"IPrototype">>},
        attributes \in {{}, {CsharpAttribute("Prototype", NoArguments)}}}
    \cup
    {CsharpObject(Str(<<"other">>, "pascal"), base,
                  {CsharpAttribute("Prototype", TypeOf(String(Quoted(Fo))))},
                  <<>>) :
        base \in {<<>>, <<"IPrototype">>}}

PrototypeTables ==
    {classes \in SUBSET PrototypeClasses : IsClassTable(classes)}

PrototypeByNameCalls ==
    {[fn |-> "get_prototype_by_name", done |-> FALSE, classes |-> classes,
      name |-> name] :
        classes \in PrototypeTables, name \in {Fo, Str(<<"ba">>, "camel")}}

CallGetPrototypeByName ==
    /\ call.fn = "get_prototype_by_name"
    /\ ~call.done
    /\ \E result \in get_prototype_by_name(call.classes, call.name) :
          call' = [fn |-> call.fn, done |-> TRUE, classes |-> call.classes,
                   name |-> call.name, result |-> result]
    /\ UNCHANGED <<backend_vars, project_vars>>

(* YamlCompletion::components_completion and ::field_type_completion     *)

Cap == 100

MaxItems == 101

\* The candidates, by rank: those that pass the similarity filter when a
\* value has been typed, every one when none has.
Candidates(n) == [i \in 1..n |-> i]

\* Vec::truncate(len)
truncate(items, len) ==
    IF Len(items) > len THEN SubSeq(items, 1, len) ELSE items

CompletionList(is_incomplete, items) ==
    [is_incomplete |-> is_incomplete, items |-> items]

\* With a value the ranked items are truncated; with none every component
\* is collected.
components_completion(n, has_value) ==
    CompletionList(TRUE, IF has_value THEN truncate(Candidates(n), Cap)
                         ELSE Candidates(n))

\* Both branches of every type truncate.
field_type_completion(n, has_value) ==
    CompletionList(TRUE, truncate(Candidates(n), Cap))

CompletionCalls ==
    {[fn |-> fn, done |-> FALSE, candidates |-> n, has_value |-> v] :
        fn \in {"components_completion", "field_type_completion"},
        n \in 0..MaxItems, v \in BOOLEAN}

CallComponentsCompletion ==
    /\ call.fn = "components_completion"
    /\ ~call.done
    /\ call' = [fn |-> call.fn, done |-> TRUE, candidates |-> call.candidates,
                has_value |-> call.has_value,
                result |-> components_completion(call.candidates,
                                                 call.has_value)]
    /\ UNCHANGED <<backend_vars, project_vars>>

CallFieldTypeCompletion ==
    /\ call.fn = "field_type_completion"
    /\ ~call.done
    /\ call' = [fn |-> call.fn, done |-> TRUE, candidates |-> call.candidates,
                has_value |-> call.has_value,
                result |-> field_type_completion(call.candidates,
                                                 call.has_value)]
    /\ UNCHANGED <<backend_vars, project_vars>>

(* to_relative_semantic_tokens *)

MaxTokens == 2

\* An absolute token: the start point of its range, its length in bytes
\* (end_byte - start_byte) and its type.
AbsoluteToken(row, column, length, token_type) ==
    [row |-> row, column |-> column, length |-> length,
     token_type |-> token_type]

SemanticToken(delta_line, delta_start, length, token_type) ==
    [delta_line |-> delta_line, delta_start |-> delta_start,
     length |-> length, token_type |-> token_type,
     token_modifiers_bitset |-> 0]

\* The comparison of sort_by: row, then column.
Before(a, b) ==
    a.row < b.row \/ (a.row = b.row /\ a.column < b.column)

\* Insert a token after every token that is not after it.
RECURSIVE InsertSorted(_, _)
InsertSorted(sorted, tok) ==
    IF sorted = <<>> THEN <<tok>>
    ELSE IF Before(tok, Head(sorted)) THEN <<tok>> \o sorted
    ELSE <<Head(sorted)>> \o InsertSorted(Tail(sorted), tok)

\* Vec::sort_by, a stable sort.
RECURSIVE sort_by(_)
sort_by(tokens) ==
    IF tokens = <<>> THEN <<>>
    ELSE InsertSorted(sort_by(SubSeq(tokens, 1, Len(tokens) - 1)),
                      tokens[Len(tokens)])

\* u32 subtraction; below zero it panics or wraps, shown as -1.
u32_sub(a, b) == IF a >= b THEN a - b ELSE -1

\* Mutant of delta_start: always relative to the previous token.
delta_start_relative(delta_line, col, prev_col) == u32_sub(col, prev_col)

delta_start(delta_line, col, prev_col) ==
    IF delta_line > 0 THEN col ELSE u32_sub(col, prev_col)

RECURSIVE Relative(_, _, _)
Relative(tokens, prev_line, prev_col) ==
    IF tokens = <<>> THEN <<>>
    ELSE LET tok == Head(tokens)
             line == tok.row
             col == tok.column
             delta_line == u32_sub(line, prev_line)
         IN  <<SemanticToken(delta_line,
                             delta_start(delta_line, col, prev_col),
                             tok.length, tok.token_type)>>
                \o Relative(Tail(tokens), line, col)

to_relative_semantic_tokens(tokens) == Relative(sort_by(tokens), 0, 0)

AbsoluteTokens ==
    {AbsoluteToken(row, column, 1, token_type) :
        row \in 0..1, column \in 0..2, token_type \in 0..1}

SemanticTokensCalls ==
    {[fn |-> "to_relative_semantic_tokens", done |-> FALSE,
      tokens |-> tokens] :
        tokens \in UNION {[1..n -> AbsoluteTokens] : n \in 0..MaxTokens}}

CallToRelativeSemanticTokens ==
    /\ call.fn = "to_relative_semantic_tokens"
    /\ ~call.done
    /\ call' = [fn |-> call.fn, done |-> TRUE, tokens |-> call.tokens,
                result |-> to_relative_semantic_tokens(call.tokens)]
    /\ UNCHANGED <<backend_vars, project_vars>>

(* Position to char offset, as did_change computes it, and back *)

MaxRope == 3

\* Rope::char_to_line; -1 stands for the panic on an index past the end.
char_to_line(text, idx) ==
    IF idx > Len(text) THEN -1
    ELSE Cardinality({j \in Newlines(text) : j <= idx})

\* did_change: line_to_char(line) + character
position_to_char(text, position) ==
    line_to_char(text, position.line) + position.character

\* The position of a char offset: its line and the distance from the start
\* of that line.
char_to_position(text, idx) ==
    LET line == char_to_line(text, idx)
    IN  IF line < 0 THEN [line |-> -1, character |-> -1]
        ELSE [line |-> line, character |-> idx - line_to_char(text, line)]

RECURSIVE Texts(_)
Texts(n) ==
    IF n = 0 THEN {<<>>}
    ELSE Texts(n - 1)
            \cup {Append(text, c) : text \in Texts(n - 1), c \in {"H", "\n"}}

\* Every position of a line that exists in the rope.
PositionCalls ==
    {c \in {[fn |-> "position_to_char", done |-> FALSE, rope |-> text,
             position |-> [line |-> line, character |-> character]] :
               text \in Texts(MaxRope), line \in 0..MaxRope,
               character \in 0..MaxRope} :
        c.position.line < len_lines(c.rope)}

CallPositionToChar ==
    /\ call.fn = "position_to_char"
    /\ ~call.done
    /\ LET idx == position_to_char(call.rope, call.position)
       IN  call' = [fn |-> call.fn, done |-> TRUE, rope |-> call.rope,
                    position |-> call.position, idx |-> idx,
                    result |-> char_to_position(call.rope, idx)]
    /\ UNCHANGED <<backend_vars, project_vars>>

(* YamlGotoDefinition::try_goto_prototype_definition, key `parent` *)

MaxParents == 2

ParentIds == {"BaseMob", "LivingBeing"}

\* The text of a flow sequence of ids: `[`, the ids with `,` between, `]`.
RECURSIVE Joined(_)
Joined(ids) ==
    IF Len(ids) = 1 THEN <<ids[1]>>
    ELSE <<ids[1], ",">> \o Joined(Tail(ids))

\* Node::utf8_text of the value node of the `parent` pair: the scalar, or
\* the whole sequence.
ValueText(value) ==
    IF value.flow THEN <<"[">> \o Joined(value.ids) \o <<"]">>
    ELSE <<value.ids[1]>>

\* The node of the i-th id of the value: its text and its range.
IdNode(value, i) == [text |-> <<value.ids[i]>>, range |-> <<0, i>>]

Location(uri, range) == [kind |-> "Scalar", uri |-> uri, range |-> range]

LocationLink(origin_selection_range, uri, range) ==
    [kind |-> "Link", origin_selection_range |-> origin_selection_range,
     uri |-> uri, range |-> range]

index_to_definition(index) ==
    IF index.path = "" \/ index.range = <<>> THEN None
    ELSE Some(Location(index.path, index.range))

\* The `parent` arm: the clicked text must be the whole value; the table
\* is searched for the type of the enclosing object and the clicked id.
try_goto_prototype_definition(node, value, type_field_value, prototypes) ==
    LET seeking == node.text
    IN  IF seeking # ValueText(value) THEN {None}
        ELSE LET matching ==
                     find_any({p \in prototypes :
                                  /\ p.prototype = type_field_value
                                  /\ <<p.id>> = seeking})
             IN  IF matching = {} THEN {None}
                 ELSE {index_to_definition(p.index) : p \in matching}

ParentValues ==
    {[flow |-> FALSE, ids |-> <<id>>] : id \in ParentIds}
    \cup {[flow |-> TRUE, ids |-> ids] :
            ids \in UNION {[1..n -> ParentIds] : n \in 1..MaxParents}}

PrototypeRecords ==
    {YamlPrototype(prototype, id, DefinitionIndex("a.yml", <<row, 0>>)) :
        prototype \in {"entity", "reagent"}, id \in ParentIds, row \in 1..2}

\* A table holds one record for each (prototype, id).
PrototypeSets ==
    {set \in SUBSET PrototypeRecords :
        /\ Cardinality(set) <= 2
        /\ \A x, y \in set :
              Ident("prototypes", x) = Ident("prototypes", y) => x = y}

GotoPrototypeCalls ==
    {c \in {[fn |-> "try_goto_prototype_definition", done |-> FALSE,
             value |-> value, clicked |-> i, prototypes |-> prototypes] :
               value \in ParentValues, i \in 1..MaxParents,
               prototypes \in PrototypeSets} :
        c.clicked <= Len(c.value.ids)}

CallGotoPrototype ==
    /\ call.fn = "try_goto_prototype_definition"
    /\ ~call.done
    /\ \E result \in try_goto_prototype_definition(
                        IdNode(call.value, call.clicked), call.value,
                        "entity", call.prototypes) :
          call' = [fn |-> call.fn, done |-> TRUE, value |-> call.value,
                   clicked |-> call.clicked, prototypes |-> call.prototypes,
                   result |-> result]
    /\ UNCHANGED <<backend_vars, project_vars>>

(* SemanticAnalyzer::message_to_semantic *)

MaxElements == 3

\* Spans are char offsets <<start, end>> into the one line of the message.
\* `hello-world = ` puts the pattern at offset 14; a placeable is
\* `{ $name }`, brackets at both ends and the variable at 2..7 within.
Layout == [id |-> <<0, 11>>, pattern |-> 14, placeable |-> 9]

IdSpan == Layout.id

PatternStart == Layout.pattern

PlaceableWidth == Layout.placeable

TextElement(width) == [kind |-> "TextElement", width |-> width]

Placeable == [kind |-> "Placeable", width |-> PlaceableWidth]

create_absolute_token(range, token_type) ==
    [range |-> range, token_type |-> token_type]

\* The span fluent_syntax gives Expression::Inline: the opening bracket,
\* the whole placeable or the expression within.
InlineSpans == {"bracket", "placeable", "expression"}

InlineSpan(choice, start) ==
    IF choice = "bracket" THEN <<start, start + 1>>
    ELSE IF choice = "placeable" THEN <<start, start + PlaceableWidth>>
    ELSE <<start + 2, start + 7>>

\* InlineExpression::VariableReference
inline_expr_to_semantic(start) ==
    <<create_absolute_token(<<start + 2, start + 7>>, "Variable")>>

\* Expression::Inline: one Operator token over its span, then the tokens of
\* the inline expression.
expr_to_semantic(choice, start) ==
    <<create_absolute_token(InlineSpan(choice, start), "Operator")>>
        \o inline_expr_to_semantic(start)

pattern_element_to_semantic(element, choice, start) ==
    IF element.kind = "TextElement"
    THEN <<create_absolute_token(<<start, start + element.width>>, "String")>>
    ELSE expr_to_semantic(choice, start)

RECURSIVE ElementsToSemantic(_, _, _)
ElementsToSemantic(elements, choice, start) ==
    IF elements = <<>> THEN <<>>
    ELSE pattern_element_to_semantic(Head(elements), choice, start)
            \o ElementsToSemantic(Tail(elements), choice,
                                  start + Head(elements).width)

message_to_semantic(elements, choice) ==
    <<create_absolute_token(IdSpan, "EnumMember")>>
        \o ElementsToSemantic(elements, choice, PatternStart)

\* The patterns the parser produces: no two text elements in a row.
Patterns ==
    {elements \in UNION {[1..n -> {TextElement(1), TextElement(4), Placeable}] :
                            n \in 0..MaxElements} :
        \A i \in 1..Len(elements) - 1 :
            ~(elements[i].kind = "TextElement"
                 /\ elements[i + 1].kind = "TextElement")}

MessageCalls ==
    {[fn |-> "message_to_semantic", done |-> FALSE, elements |-> elements] :
        elements \in Patterns}

CallMessageToSemantic ==
    /\ call.fn = "message_to_semantic"
    /\ ~call.done
    /\ \E choice \in InlineSpans :
          call' = [fn |-> call.fn, done |-> TRUE, elements |-> call.elements,
                   result |-> message_to_semantic(call.elements, choice)]
    /\ UNCHANGED <<backend_vars, project_vars>>

(* YamlCompletion::prototype_fields_completion *)

MaxFields == 2

Name(word, style) == Str(<<word>>, style)

Tagged(word) ==
    {CsharpAttribute("DataField", TagOf(String(Quoted(Name(word, "camel")))))}

\* CsharpClassField::new_empty("id", "string")
new_empty(name, type_name) == CsharpClassField(name, type_name, {})

\* The data-field name of a field none of whose attributes is repeated.
DataFieldName(f) == CHOOSE name \in get_data_field_name(f) : TRUE

CompletionItem(label, detail, sort_text) ==
    [label |-> label, detail |-> detail, sort_text |-> sort_text]

\* The item of a field: sort_text "0" for a declaration named id or
\* components, "1" for any other.
FieldItem(f) ==
    CompletionItem(DataFieldName(f), f.type_name,
                   IF f.name = Name("id", "camel")
                         \/ f.name = Name("components", "camel")
                   THEN 0 ELSE 1)

\* fields: what get_fields returned for the prototype.
prototype_fields_completion(fields, specified_fields) ==
    LET with_data_field ==
            SelectSeq(fields,
                      LAMBDA f : attributes_contains(f.attributes, "DataField"))
        chained ==
            with_data_field \o <<new_empty(Name("id", "camel"), <<"string">>)>>
        proposed ==
            SelectSeq(chained, LAMBDA f : DataFieldName(f) \notin specified_fields)
        items == [i \in 1..Len(proposed) |-> FieldItem(proposed[i])]
    IN  IF Len(items) > 0 THEN Some([kind |-> "Array", items |-> items])
        ELSE None

\* Fields of a prototype class: `Components` and `Id` with their tags,
\* `components` and `Damage` with a tag-less DataField, `Speed` without.
PrototypeFields ==
    {CsharpClassField(Name("components", "pascal"), <<"ComponentRegistry">>,
                      Tagged("components")),
     CsharpClassField(Name("components", "camel"), <<"ComponentRegistry">>,
                      {CsharpAttribute("DataField", NoArguments)}),
     CsharpClassField(Name("id", "pascal"), <<"string">>, Tagged("id")),
     CsharpClassField(Name("damage", "pascal"), <<"int">>,
                      {CsharpAttribute("DataField", NoArguments)}),
     CsharpClassField(Name("speed", "pascal"), <<"int">>, {})}

FieldsCompletionCalls ==
    {[fn |-> "prototype_fields_completion", done |-> FALSE,
      fields |-> fields, specified_fields |-> specified_fields] :
        fields \in UNION {[1..n -> PrototypeFields] : n \in 0..MaxFields},
        specified_fields \in SUBSET {Name("id", "camel"),
                                     Name("damage", "camel")}}

CallPrototypeFieldsCompletion ==
    /\ call.fn = "prototype_fields_completion"
    /\ ~call.done
    /\ call' = [fn |-> call.fn, done |-> TRUE, fields |-> call.fields,
                specified_fields |-> call.specified_fields,
                result |-> prototype_fields_completion(call.fields,
                                                       call.specified_fields)]
    /\ UNCHANGED <<backend_vars, project_vars>>

(* The component filter of YamlCompletion::components_completion *)

MaxClasses == 2

\* impl TryFrom<Arc<CsharpObject>> for Component: `&&` binds tighter than
\* `||`.
IsComponent(class) ==
    \/ /\ attributes_contains(class.attributes, "RegisterComponent")
       /\ "Component" \in SeqToSet(class.base)
    \/ "IComponent" \in SeqToSet(class.base)

\* The classes behind the proposed items: those that convert to Component.
completions(classes) == {c \in classes : IsComponent(c)}

ComponentClasses ==
    {CsharpObject(name, base, attributes, <<>>) :
        name \in {"Foo", "Bar"},
        base \in {<<>>, <<"Component">>, <<"IComponent">>,
                  <<"Base", "IComponent">>},
        attributes \in {{}, {CsharpAttribute("RegisterComponent",
                                             NoArguments)}}}

ComponentFilterCalls ==
    {[fn |-> "completions", done |-> FALSE, classes |-> classes] :
        classes \in {set \in SUBSET ComponentClasses :
                        IsClassTable(set) /\ Cardinality(set) <= MaxClasses}}

CallCompletions ==
    /\ call.fn = "completions"
    /\ ~call.done
    /\ call' = [fn |-> call.fn, done |-> TRUE, classes |-> call.classes,
                result |-> completions(call.classes)]
    /\ UNCHANGED <<backend_vars, project_vars>>

(* Backend::did_change: the loop over the content changes *)

\* The ropes before and after each content change the loop reaches: a panic
\* of line_to_char ends the handler at that change.
RECURSIVE ChangeSteps(_, _)
ChangeSteps(text, changes) ==
    IF changes = <<>> THEN <<>>
    ELSE LET r == ApplyChange(text, Head(changes))
             step == [change |-> Head(changes), before |-> text,
                      after |-> r.rope, panic |-> r.panic]
         IN  IF r.panic THEN <<step>>
             ELSE <<step>> \o ChangeSteps(r.rope, Tail(changes))

\* Ranged edits on the first two lines, inside the rope and past its end.
RangedEdits ==
    {[sl |-> 0, sc |-> sc, el |-> el, ec |-> ec, text |-> <<"D">>] :
        sc \in 0..1, el \in 0..1, ec \in 0..MaxRope}

\* The edit that follows in the same notification.
NextEdit == [sl |-> 0, sc |-> 0, el |-> 0, ec |-> 0, text |-> <<"m">>]

DidChangeCalls ==
    {[fn |-> "did_change", done |-> FALSE, rope |-> text,
      content_changes |-> changes] :
        text \in Texts(MaxRope),
        changes \in {<<c>> : c \in RangedEdits}
                        \cup {<<c, NextEdit>> : c \in RangedEdits}}

CallDidChange ==
    /\ call.fn = "did_change"
    /\ ~call.done
    /\ call' = [fn |-> call.fn, done |-> TRUE, rope |-> call.rope,
                content_changes |-> call.content_changes,
                steps |-> ChangeSteps(call.rope, call.content_changes),
                result |-> ApplyChanges(call.rope, call.content_changes)]
    /\ UNCHANGED <<backend_vars, project_vars>>

Calls ==
    GetFieldsCalls \cup DataFieldNameCalls \cup PrototypeByNameCalls
        \cup CompletionCalls \cup SemanticTokensCalls \cup PositionCalls \cup GotoPrototypeCalls \cup MessageCalls \cup FieldsCompletionCalls \cup ComponentFilterCalls \cup DidChangeCalls

CallInit == BackendInit /\ NoProject /\ call \in Calls

CallNext ==
    \/ CallGetFields
    \/ CallGetDataFieldName
    \/ CallGetPrototypeByName
    \/ CallComponentsCompletion
    \/ CallFieldTypeCompletion
    \/ CallToRelativeSemanticTokens
    \/ CallPositionToChar
    \/ CallGotoPrototype
    \/ CallMessageToSemantic
    \/ CallPrototypeFieldsCompletion
    \/ CallCompletions
    \/ CallDidChange

CallSpec == CallInit /\ [][CallNext]_vars

-----------------------------------------------------------------------------
(* Saves of a YAML file into a Prototype Table that also holds the records *)
(* of another file.                                                        *)

OtherYaml == "b.yml"

RECURSIVE YamlTexts(_)
YamlTexts(n) ==
    IF n = 0 THEN {<<>>}
    ELSE YamlTexts(n - 1)
            \cup {Append(text, c) : text \in YamlTexts(n - 1),
                                    c \in {"H", "D", "m"}}

\* What the ingest of a file with this text adds to the Prototype Table.
Ingested(set, path, text) ==
    Dispatch("prototypes", set,
             YamlExtract(path, ParseTree("yml", text), text))

\* The project has been ingested, a.yml and the other file in either
\* order; a.yml is open and has been edited since.
SaveInit ==
    /\ disk = [p \in Paths |-> InitText]
    /\ \E text \in YamlTexts(MaxLen) :
          editor = [p \in Paths |->
                      IF p = "a.yml" THEN [open |-> TRUE, text |-> text]
                      ELSE [open |-> FALSE, text |-> <<>>]]
    /\ \E other \in YamlTexts(MaxLen) :
          \E prototypes \in
                {Ingested(Ingested({}, "a.yml", InitText), OtherYaml, other),
                 Ingested(Ingested({}, OtherYaml, other), "a.yml", InitText)} :
             /\ context = [classes |-> {}, prototypes |-> prototypes,
                           locales |-> {},
                           parsed_files |->
                               [p \in Paths |->
                                   IF p = "a.yml"
                                   THEN ParseTree("yml", InitText)
                                   ELSE NoTree]]
             /\ committed = [t \in Tables |->
                               IF t = "prototypes" THEN prototypes ELSE {}]
    /\ wlock = [t \in Tables |-> 0]
    /\ opened_files = [p \in Paths |-> NoFile]
    /\ ropes = <<>>
    /\ h = [s \in Slots |-> Idle]
    /\ ingest = [p \in Paths |-> [st |-> "done"]]
    /\ events = 0
    /\ changed = [p \in Paths |-> <<>>]
    /\ overlapped = FALSE
    /\ NoProject
    /\ call = NoCall

SaveNext ==
    \/ \E s \in Slots, url \in Paths : EditorSave(s, url)
    \/ \E s \in Slots : SaveParse(s)
    \/ \E s \in Slots : SaveLock(s)
    \/ \E s \in Slots : SaveInsert(s)
    \/ \E s \in Slots : SaveRemove(s)

SaveSpec == SaveInit /\ [][SaveNext]_vars

-----------------------------------------------------------------------------
(* The notifications and queries on one YAML document beside the ingest,   *)
(* whose tasks run in any order: every lock a handler takes is taken here. *)

LockNext ==
    \/ \E s \in Slots, url \in YamlPaths : EditorOpen(s, url)
    \/ \E s \in Slots, url \in YamlPaths, c \in Changes :
          EditorChange(s, url, c)
    \/ \E s \in Slots, url \in YamlPaths : EditorSave(s, url)
    \/ \E s \in Slots, url \in YamlPaths : GotoStart(s, url)
    \/ \E s \in Slots, url \in YamlPaths : CompletionStart(s, url)
    \/ \E s \in Slots : OpenTree(s)
    \/ \E s \in Slots : OpenInsert(s)
    \/ \E s \in Slots : ChangeFiles(s)
    \/ \E s \in Slots : ChangeRope(s)
    \/ \E s \in Slots : ChangeInsert(s)
    \/ \E s \in Slots : ChangeStore(s)
    \/ \E s \in Slots : SaveParse(s)
    \/ \E s \in Slots : SaveLock(s)
    \/ \E s \in Slots : SaveInsert(s)
    \/ \E s \in Slots : SaveRemove(s)
    \/ \E s \in Slots : GotoFiles(s)
    \/ \E s \in Slots : GotoScan(s)
    \/ \E s \in Slots : GotoReturn(s)
    \/ \E s \in Slots : CompletionRoot(s)
    \/ \E s \in Slots : GetComponentByName(s)
    \/ \E s \in Slots : GetFields(s)
    \/ \E path \in Paths : IngestParseFile(path)
    \/ \E path \in Paths : IngestDispatch(path)

LockSpec == Init /\ [][LockNext]_vars

-----------------------------------------------------------------------------

(* Properties.                                                             *)

Pairs(records) == {<<r.prototype, r.id>> : r \in records}

Human == <<"entity", "Human">>
Dwarf == <<"entity", "Dwarf">>

\* The step in which handler s, running `op`, returns.
Returns(s, op) == h[s].pc # "idle" /\ h[s].op = op /\ h'[s].pc = "idle"

\* The step in which a did_save of a file of extension ext ends its commit.
Commits(s, ext) ==
    /\ h[s].pc = "s_remove"
    /\ get_ext(h[s].url) = ext
    /\ h'[s].pc = "idle"

\* C1: when a did_save of a YAML file whose parse succeeded returns, the
\* Prototype Table holds every (prototype-type, id) pair extracted from the
\* file and no record of that file whose pair the extraction lacks.
C1_SaveReplacesByOrigin ==
    [][\A s \in Slots : Commits(s, "yml") =>
          /\ Pairs(SeqToSet(h[s].parsed)) \subseteq Pairs(context'.prototypes)
          /\ Pairs({r \in context'.prototypes : r.index.path = h[s].url})
                \subseteq Pairs(SeqToSet(h[s].parsed))]_vars

\* A save has replaced the ingested record of a.yml by another one.
C1_Witness ==
    /\ \A s \in Slots : h[s].pc = "idle"
    /\ ingest["a.yml"].st = "done"
    /\ Dwarf \in Pairs({r \in context.prototypes : r.index.path = "a.yml"})
    /\ Human \notin Pairs(context.prototypes)

\* C2: what a reader of a table sees is the table as some commit left it,
\* never a table in the middle of a save commit.
C2_ReaderSeesCommitted ==
    \A s \in Slots : h[s].pc = "g_ret" => h[s].seen = h[s].linearized

\* A reader has scanned the table while a save that has records to drop
\* is in the middle of its commit.
C2_Witness ==
    \E s, t \in Slots :
        /\ h[s].pc = "g_ret"
        /\ h[t].pc \in {"s_insert", "s_remove"}
        /\ h[t].diff # {}

\* The last record of a list with the identity of r.
LastOf(t, items, r) ==
    LET idx == {i \in 1..Len(items) : Ident(t, items[i]) = Ident(t, r)}
    IN  items[CHOOSE i \in idx : \A j \in idx : j <= i]

\* C3: after the inserts of a save commit or of an ingest commit, the
\* record a table holds for an inserted identity is the record inserted
\* last (last write wins).
C3_InsertOverwrites ==
    [][/\ \A s \in Slots : (h[s].pc = "s_insert" /\ h'[s].pc = "s_remove") =>
             \A r \in SeqToSet(h[s].parsed) :
                 LastOf(TableOf(h[s].url), h[s].parsed, r)
                     \in context'[TableOf(h[s].url)]
       /\ \A p \in Paths :
             (ingest[p].st = "parsed" /\ ingest'[p].st = "done"
                 /\ ingest[p].result.ok) =>
             \A r \in SeqToSet(ingest[p].result.items) :
                 LastOf(TableOf(p), ingest[p].result.items, r)
                     \in context'[TableOf(p)]]_vars

\* The step in which a did_save returns because the parser failed.
SaveFails(s) ==
    /\ h[s].pc = "s_parse"
    /\ SavedExt(get_ext(h[s].url))
    /\ h'[s].pc = "idle"

\* C4: a save whose parse fails leaves the three tables and the
\* Parsed-File Map as they were.
C4_FailedSaveChangesNothing ==
    [][\A s \in Slots : SaveFails(s) => context' = context]_vars

\* C5: a save of a YAML file in which Human became Dwarf leaves
\* (entity, Dwarf) and not (entity, Human) in the Prototype Table, and no
\* step of the save touches the Class Table or the Locale Table.
C5_RenameOnSave ==
    [][\A s \in Slots :
          /\ (Commits(s, "yml")
                /\ Human \in Pairs({r \in committed.prototypes :
                                       r.index.path = h[s].url})
                /\ Dwarf \in Pairs(SeqToSet(h[s].parsed))
                /\ Human \notin Pairs(SeqToSet(h[s].parsed)))
             => /\ Dwarf \in Pairs(context'.prototypes)
                /\ Human \notin Pairs(context'.prototypes)
          /\ (h[s].pc \in {"s_parse", "s_lock", "s_insert", "s_remove"}
                /\ get_ext(h[s].url) = "yml" /\ h'[s] # h[s])
             => /\ context'.classes = context.classes
                /\ context'.locales = context.locales]_vars

\* The rename has been saved with the other two tables filled.
C5_Witness ==
    /\ context.classes # {}
    /\ context.locales # {}
    /\ disk["a.yml"] = <<"D">>
    /\ Pairs(context.prototypes) = {Dwarf}
    /\ \A s \in Slots : h[s].pc = "idle"

\* The tree of an open buffer is the parse of the text its rope holds.
TreeMatchesRope(url) ==
    opened_files[url] # NoFile =>
        opened_files[url].tree =
            ParseTree(get_ext(url), ropes[opened_files[url].rope])

\* C6: after any sequence of open, change and save events, each handler
\* run to completion before the next starts, every open buffer pairs its
\* rope with the parse of the rope's contents.
C6_TreeMatchesRope ==
    ((\A s \in Slots : h[s].pc = "idle") /\ ~overlapped) =>
        \A url \in Paths : TreeMatchesRope(url)

\* The change with the highest delivery number among those applied.
LatestChange(url) ==
    CHOOSE c \in SeqToSet(changed[url]) :
        \A d \in SeqToSet(changed[url]) : d.seq <= c.seq

ChangeInFlight(url) ==
    \E s \in Slots : h[s].pc # "idle" /\ h[s].op = "did_change" /\ h[s].url = url

\* C7: the changes of a document are applied in delivery order, and once
\* its change handlers have returned the buffer carries the tree parsed
\* after the latest change.
C7_ChangesSerialized ==
    \A url \in Paths :
        /\ \A i, j \in 1..Len(changed[url]) :
              i < j => changed[url][i].seq < changed[url][j].seq
        /\ (changed[url] # <<>> /\ ~ChangeInFlight(url)
                /\ opened_files[url] # NoFile)
           => opened_files[url].tree = LatestChange(url).tree

\* C8 as stated: when did_open returns (the project ingested), the url has
\* an open buffer whose rope holds the file's contents, whether or not a
\* tree was cached.
C8_OpenAlwaysAttaches ==
    [][\A s \in Slots : (Returns(s, "did_open") /\ IngestDone) =>
          /\ opened_files'[h[s].url] # NoFile
          /\ ropes'[opened_files'[h[s].url].rope] = disk[h[s].url]]_vars

\* C8, amended: did_open reads the file only when the tree store has a
\* tree for the path; it then returns with a buffer attached that pairs a
\* new rope holding the contents it read with the cached tree it found.
\* When no tree is cached it returns with the open-buffer map unchanged.
C8_OpenAttachesWhenCached ==
    [][\A s \in Slots :
          /\ (h[s].pc = "o_tree" /\ h'[s].pc = "o_insert") =>
                /\ context.parsed_files[h[s].url] # NoTree
                /\ h'[s].tree = context.parsed_files[h[s].url]
                /\ h'[s].content = disk[h[s].url]
          /\ (Returns(s, "did_open") /\ h[s].pc = "o_insert") =>
                /\ opened_files'[h[s].url] # NoFile
                /\ opened_files'[h[s].url].tree = h[s].tree
                /\ opened_files'[h[s].url].rope \notin
                      {opened_files[u].rope : u \in {v \in Paths :
                                                  opened_files[v] # NoFile}}
                /\ ropes'[opened_files'[h[s].url].rope] = h[s].content
          /\ (Returns(s, "did_open") /\ h[s].pc = "o_tree") =>
                /\ context.parsed_files[h[s].url] = NoTree
                /\ opened_files' = opened_files]_vars

\* Both cases have happened: a buffer is attached for one document, and
\* another document is open in the editor without one.
C8_Witness ==
    /\ \A s \in Slots : h[s].pc = "idle"
    /\ \E u \in Paths : opened_files[u] # NoFile
    /\ \E u \in Paths : editor[u].open /\ opened_files[u] = NoFile

\* C9: after a close event the url has no open buffer, and the Parsed-File
\* Map still holds its tree.
C9_CloseDropsBuffer ==
    [][\A url \in Paths : (editor[url].open /\ ~editor'[url].open) =>
          /\ opened_files'[url] = NoFile
          /\ context'.parsed_files[url] = context.parsed_files[url]]_vars

Keys(records) == {r.key : r \in records}

\* C10: when a did_save of a localization file returns (the project
\* ingested), the Locale Table holds every key extracted from the file on
\* disk and no key of that file that the extraction lacks.
C10_FluentSaveCommits ==
    [][\A s \in Slots :
          (Returns(s, "did_save") /\ get_ext(h[s].url) = "ftl" /\ IngestDone) =>
             LET new == Keys(SeqToSet(FluentExtract(h[s].url,
                                                    disk[h[s].url]).items))
             IN  /\ new \subseteq Keys(context'.locales)
                 /\ Keys({r \in context'.locales : r.index.path = h[s].url})
                        \subseteq new]_vars

\* A query handler stands at the root_uri mutex.
AtRootUri(s) == h[s].pc \in {"q_root", "g_scan"}

\* C11: a query that arrives while the ingest is running does not wait for
\* it: no completion or go-to-definition handler stands at a lock that the
\* running ingest keeps.
C11_QueriesNotBlocked ==
    \A s \in Slots : AtRootUri(s) => RootUriFree

\* C15: the table reads made for one request observe the same state of the
\* table.
C15_OneSnapshot ==
    [][\A s \in Slots :
          (h[s].pc = "q_fields" /\ h'[s].pc = "idle")
              => h[s].comp_read = context.classes]_vars

\* The files whose results the reader receives.
FilesOf(r) == {f \in Collected : ReaderOf(f[1]) = r}

Failed(f) == tasks[f] \in {"err", "panic"}

Indexed(f) ==
    \A rec \in SeqToSet(FileRecords(f)) : rec \in context[GroupTable(f[1])]

C13_TokenOfGroup ==
    [][\A r \in Readers :
          (chan[r] # <<>> /\ chan'[r] = Tail(chan[r]))
              => \A g \in Groups :
                    token'[g] # token[g] => g = Head(chan[r]).group]_vars

ProjectDone ==
    /\ \A f \in Collected : tasks[f] # "spawned"
    /\ \A r \in Readers : reader[r].pc = "done"
    /\ \A g \in Groups : ~token[g].open

\* C14: under fair scheduling the ingest completes: every file is parsed
\* or dropped, both readers end and every token is closed.
C14_IngestCompletes == <>ProjectDone

Returned(fn) == call.fn = fn /\ call.done

\* The declared fields of the class the table holds under the name, none
\* when it holds no such class.
DeclaredFields(classes, name) ==
    IF \E c \in classes : c.name = name
    THEN (CHOOSE c \in classes : c.name = name).fields
    ELSE <<>>

RECURSIVE Concatenation(_, _)
Concatenation(classes, names) ==
    IF names = <<>> THEN <<>>
    ELSE DeclaredFields(classes, Head(names))
            \o Concatenation(classes, Tail(names))

\* C16: fields(C) is the concatenation, in the order of C.base, of the
\* declared fields of every base the table holds, followed by C.fields;
\* a base the table does not hold is skipped and duplicates are kept.
C16_FieldsInBaseOrder ==
    Returned("get_fields") =>
        call.result = Concatenation(call.classes, call.class.base)
                         \o call.class.fields

\* A base that is held, a base that is missing and a duplicate field.
C16_Witness ==
    /\ Returned("get_fields")
    /\ \E i, j \in 1..Len(call.class.base) :
          /\ \E c \in call.classes : c.name = call.class.base[i]
          /\ ~\E c \in call.classes : c.name = call.class.base[j]
    /\ \E i, j \in 1..Len(call.result) : i # j /\ call.result[i] = call.result[j]

\* The field has a DataField attribute with a tag that is a string.
HasTag(field) ==
    \E attr \in field.attributes :
        /\ attr.name = "DataField"
        /\ "tag" \in DOMAIN attr.arguments
        /\ attr.arguments["tag"].kind = "String"

TagName(field) ==
    LET attr == CHOOSE a \in field.attributes :
                    a.name = "DataField" /\ "tag" \in DOMAIN a.arguments
    IN  [attr.arguments["tag"].value EXCEPT !.quoted = FALSE]

IsSpriteField(field) ==
    /\ \E attr \in field.attributes : attr.name = "IncludeDataField"
    /\ trim_end_matches(field.type_name) \in SpriteTypes

\* C17: the data-field name is the tag of the DataField attribute without
\* its quotes when there is such a tag, else "sprite" on a field with
\* IncludeDataField and a sprite-specifier type, also when the field has a
\* DataField attribute without a tag, else the declaration name in lower
\* camel case.
C17_DataFieldName ==
    Returned("get_data_field_name") =>
        call.result =
            IF HasTag(call.field) THEN TagName(call.field)
            ELSE IF IsSpriteField(call.field) THEN Sprite
            ELSE [call.field.name EXCEPT !.style = "camel"]

\* C18: a class is returned exactly when the table holds a class that
\* matches the name by one of the three rules, has the marker interface
\* in its base list and carries the Prototype attribute; the class
\* returned satisfies both.
C18_ResolvePrototype ==
    Returned("get_prototype_by_name") =>
        /\ call.result # None <=>
               \E c \in call.classes :
                   MatchesName(c, call.name) /\ IsPrototype(c)
        /\ call.result # None => IsPrototype(call.result[1])

\* C19: a completion with more than 100 candidates carries at most 100
\* of them and is marked incomplete, and a response whose list was cut is
\* marked incomplete.
C19_CappedAndMarked ==
    (Returned("components_completion") \/ Returned("field_type_completion")) =>
        /\ call.candidates > Cap =>
               Len(call.result.items) <= Cap /\ call.result.is_incomplete
        /\ Len(call.result.items) < call.candidates =>
               call.result.is_incomplete

\* What the client makes of the stream: the absolute tokens again.
RECURSIVE Decode(_, _, _)
Decode(stream, prev_line, prev_col) ==
    IF stream = <<>> THEN <<>>
    ELSE LET t == Head(stream)
             line == prev_line + t.delta_line
             col == IF t.delta_line > 0 THEN t.delta_start
                    ELSE prev_col + t.delta_start
         IN  <<[row |-> line, column |-> col, length |-> t.length,
                token_type |-> t.token_type]>>
                \o Decode(Tail(stream), line, col)

Count(seq, x) == Cardinality({i \in 1..Len(seq) : seq[i] = x})

\* C20: decoding the stream yields the absolute tokens of the analyzer,
\* each as often as the analyzer produced it, in non-decreasing (line,
\* column) order, and no delta is below zero.
C20_DeltaRoundTrip ==
    Returned("to_relative_semantic_tokens") =>
        LET decoded == Decode(call.result, 0, 0)
        IN  /\ Len(decoded) = Len(call.tokens)
            /\ \A i \in 1..Len(call.tokens) :
                  Count(decoded, call.tokens[i])
                      = Count(call.tokens, call.tokens[i])
            /\ \A i \in 1..Len(decoded) - 1 :
                  ~Before(decoded[i + 1], decoded[i])
            /\ \A i \in 1..Len(call.result) :
                  call.result[i].delta_line >= 0
                      /\ call.result[i].delta_start >= 0

\* Two tokens of one line below the first, given out of order.
C20_Witness ==
    /\ Returned("to_relative_semantic_tokens")
    /\ Len(call.tokens) >= 2
    /\ Before(call.tokens[2], call.tokens[1])
    /\ call.result[1].delta_line > 0
    /\ call.result[2].delta_line = 0
    /\ call.result[2].delta_start > 0

\* C21: a position whose line exists in the rope, converted to a char
\* offset and back, is the position again.
C21_PositionRoundTrip ==
    Returned("position_to_char") => call.result = call.position

\* C22: go-to-definition on an id of the parent value, scalar or sequence,
\* returns a LocationLink from the clicked node's range to the index of the
\* prototype with the type of the enclosing object and the clicked id.
C22_GotoParent ==
    Returned("try_goto_prototype_definition") =>
        \A p \in call.prototypes :
            (p.prototype = "entity" /\ p.id = call.value.ids[call.clicked]) =>
                call.result =
                    Some(LocationLink(IdNode(call.value, call.clicked).range,
                                      p.index.path, p.index.range))

\* The tokens of a pattern with one operator token for each bracket of a
\* placeable.
RECURSIVE BracketedTokens(_, _)
BracketedTokens(elements, start) ==
    IF elements = <<>> THEN <<>>
    ELSE LET e == Head(elements)
             end == start + e.width
         IN  (IF e.kind = "TextElement"
              THEN <<create_absolute_token(<<start, end>>, "String")>>
              ELSE <<create_absolute_token(<<start, start + 1>>, "Operator"),
                     create_absolute_token(<<start + 2, start + 7>>,
                                           "Variable"),
                     create_absolute_token(<<end - 1, end>>, "Operator")>>)
                \o BracketedTokens(Tail(elements), end)

NoOverlap(tokens) ==
    \A i, j \in 1..Len(tokens) :
        i < j => \/ tokens[i].range[2] <= tokens[j].range[1]
                 \/ tokens[j].range[2] <= tokens[i].range[1]

\* C23: the analyzer emits the id as enumMember and then, in order, a
\* string for each text element and, for each placeable, an operator for
\* its opening bracket, the variable and an operator for its closing
\* bracket (six tokens for `hello-world = Hi, { $name }!`); no two emitted
\* tokens overlap.
C23_MessageTokens ==
    Returned("message_to_semantic") =>
        /\ call.result = <<create_absolute_token(IdSpan, "EnumMember")>>
                            \o BracketedTokens(call.elements, PatternStart)
        /\ NoOverlap(call.result)

ItemsOf(result) == IF result = None THEN <<>> ELSE result[1].items

SortFirst == {Name("id", "camel"), Name("components", "camel")}

\* C24: field-name completion proposes the data-field names of the fields
\* that carry DataField, and id, without the keys already present; the
\* items id and components sort before every other item; the response is
\* an array, which carries no incomplete mark.
C24_FieldNames ==
    Returned("prototype_fields_completion") =>
        LET items == ItemsOf(call.result)
        IN  /\ {items[i].label : i \in 1..Len(items)}
                  = ({DataFieldName(call.fields[i]) :
                        i \in {j \in 1..Len(call.fields) :
                                 attributes_contains(call.fields[j].attributes,
                                                     "DataField")}}
                       \cup {Name("id", "camel")})
                    \ call.specified_fields
            /\ \A i, j \in 1..Len(items) :
                  (items[i].label \in SortFirst /\ items[j].label \notin SortFirst)
                      => items[i].sort_text < items[j].sort_text
            /\ call.result # None => call.result[1].kind = "Array"

\* C25: every class that component-type completion proposes carries the
\* RegisterComponent attribute and has Component or IComponent in its base
\* list.
C25_OnlyComponents ==
    Returned("completions") =>
        \A c \in call.result :
            /\ attributes_contains(c.attributes, "RegisterComponent")
            /\ SeqToSet(c.base) \cap {"Component", "IComponent"} # {}

\* The step in which the parse of the save handler s succeeds.
SaveParsed(s) == h[s].pc = "s_parse" /\ h'[s].pc = "s_lock"

\* The step in which the ingest installs the successful parse of path.
IngestInstalls(path) ==
    /\ ingest[path].st = "parsed"
    /\ ingest'[path].st = "done"
    /\ ingest[path].result.ok
    /\ ingest[path].tree # NoTree

\* C26: after a successful parse of a file, at ingest or on save, the
\* Parsed-File Map holds the tree of that parse under the path of the
\* file, also when it held no entry for the path before.
C26_TreeInstalled ==
    [][/\ \A s \in Slots :
             SaveParsed(s) =>
                 /\ context'.parsed_files[h[s].url] # NoTree
                 /\ context'.parsed_files[h[s].url]
                       \in Reparse(get_ext(h[s].url), disk[h[s].url],
                                   context.parsed_files[h[s].url])
       /\ \A path \in Paths :
             IngestInstalls(path) =>
                 context'.parsed_files[path] = ingest[path].tree]_vars

\* The records of a table whose origin is not the path.
NotOf(set, path) == {r \in set : r.index.path # path}

\* A step of the save handler s.
SaveStep(s) ==
    /\ h[s].pc \in {"s_parse", "s_lock", "s_insert", "s_remove"}
    /\ h'[s] # h[s]

\* C27: no step of a save of p adds, removes or changes a record whose
\* origin is another file, also when p now defines a record with the same
\* identity.
C27_SaveKeepsOtherFiles ==
    [][\A s \in Slots : SaveStep(s) =>
          \A t \in Tables :
              NotOf(context'[t], h[s].url) = NotOf(context[t], h[s].url)]_vars

\* a.yml has been saved with the item Dwarf, which the other file defines
\* too, and its record Human has been dropped.
C27_Witness ==
    /\ \A s \in Slots : h[s].pc = "idle"
    /\ events > 0
    /\ disk["a.yml"] = <<"D">>
    /\ \E r \in context.prototypes :
          r.id = "Dwarf" /\ r.index.path = OtherYaml
    /\ Human \notin Pairs(context.prototypes)

\* What the last saved contents of the file parse to.
Saved(path) == YamlExtract(path, ParseTree("yml", disk[path]), disk[path])

SavedPairs(path) == Pairs(SeqToSet(Saved(path).items))

\* The table holds no record of the file that its saved contents lack.
NoStaleRecord(prototypes, path) ==
    Pairs({r \in prototypes : r.index.path = path}) \subseteq SavedPairs(path)

\* The ingest of path commits while no save is running.
IngestFinishes(path) ==
    /\ ingest[path].st = "parsed"
    /\ ingest'[path].st = "done"
    /\ \A s \in Slots : h[s].pc = "idle"

\* C28: when the ingest of a file finishes after a save of that file has
\* committed, the Prototype Table still holds no record of the file that
\* is absent from its last saved contents.
C28_IngestKeepsSave ==
    [][\A path \in YamlPaths :
          (/\ IngestFinishes(path)
           /\ Saved(path).ok
           /\ NoStaleRecord(context.prototypes, path))
              => NoStaleRecord(context'.prototypes, path)]_vars

\* The handler waits: the lock its next step asks for is not granted.  A
\* handler at any other place holds what it needs and runs.
Waits(s) ==
    LET pc == h[s].pc
    IN  \/ pc \in {"o_insert", "c_insert"} /\ FilesReaders # {}
        \/ pc = "c_rope" /\ RopeReaders(h[s].rope) # {}
        \/ pc = "s_lock" /\ wlock[TableOf(h[s].url)] # 0
        \/ pc = "g_scan" /\ ~(RootUriFree /\ Readable("prototypes"))
        \/ pc = "q_root" /\ ~RootUriFree
        \/ pc \in {"q_comp", "q_fields"} /\ ~Readable("classes")

\* The ingest runs: a file is still to parse, or a parsed file's table is
\* not write-locked.
IngestRuns ==
    \E path \in Paths :
        \/ ingest[path].st = "todo"
        \/ ingest[path].st = "parsed" /\ wlock[TableOf(path)] = 0

\* C29: no interleaving of open, change and save notifications with queries
\* and the ingest reaches a deadlock: while a handler has started and not
\* returned, a started handler or the ingest is not waiting for a lock, so
\* the waits for the root-URI mutex, the open-buffer map lock, the rope lock
\* and the table locks never close a cycle, and once the ingest has finished
\* it is a handler that runs.
C29_NoDeadlock ==
    Busy(h) # {} => \/ \E s \in Busy(h) : ~Waits(s)
                    \/ ~IngestDone /\ IngestRuns

\* A writer of the open-buffer map waits for a query that holds the read
\* guard and waits itself for the root-URI mutex the ingest holds.
C29_Witness ==
    \E s, t \in Slots :
        /\ h[s].pc \in {"o_insert", "c_insert"}
        /\ FilesReaders = {t}
        /\ h[t].pc = "g_scan"
        /\ ~RootUriFree

\* Removing the range of the change from the rope fails: the range reaches
\* past the end of the rope.
RemoveFails(text, change) ==
    /\ line_to_char(text, change.sl) >= 0
    /\ line_to_char(text, change.el) >= 0
    /\ ~try_remove(text, line_to_char(text, change.sl) + change.sc,
                   line_to_char(text, change.el) + change.ec).ok

\* C30: each ranged edit of a change event is applied as a whole or not at
\* all: when removing its range fails, its text is not inserted and the rope
\* stays as it was before the edit, and the handler goes on to every
\* remaining edit.
C30_EditWholeOrNot ==
    Returned("did_change") =>
        /\ Len(call.steps) = Len(call.content_changes)
        /\ \A i \in 1..Len(call.steps) :
               RemoveFails(call.steps[i].before, call.steps[i].change)
                   => call.steps[i].after = call.steps[i].before

====
